---------------------------- MODULE Spec2Model ----------------------------
(***************************************************************************)
(* A model of the primitive runtime (src/runtime/primitives.py) and of the *)
(* Result helpers (src/runtime/io_primitives.py).                          *)
(*                                                                         *)
(* Expressions are TLA+ strings and are scanned character by character as  *)
(* the Python code scans them.  Indices are zero-based, as in the source.  *)
(*                                                                         *)
(* A Python value is a record [t |-> tag, v |-> payload]:                  *)
(*   none  the None_ singleton          bool   True / False                *)
(*   int   an integer                   float  a rational <<num, den>>     *)
(*   str   a string                     list   a sequence of values        *)
(*   tuple a sequence of values         dict   a sequence of <<key, val>>  *)
(*   some  primitives.Some              ok     io_adapter.Ok               *)
(*   err   io_adapter.Err               perr   primitives.Err              *)
(*   raise a raised exception (v names it): the call returned no value     *)
(*   unmodelled  a Python behaviour outside the modelled fragment          *)
(***************************************************************************)
EXTENDS Integers, Sequences, FiniteSets, TLC

(***************************************************************************)
(* Values                                                                  *)
(***************************************************************************)
NONE == [t |-> "none", v |-> 0]

VBool(b) == [t |-> "bool", v |-> b]

VInt(n) == [t |-> "int", v |-> n]

Abs(n) == IF n < 0 THEN -n ELSE n

RECURSIVE Gcd(_, _)
Gcd(a, b) == IF b = 0 THEN a ELSE Gcd(b, a % b)

\* a float, kept as the exact rational n/d in lowest terms with d > 0
VFloat(n, d) ==
    LET g == Gcd(Abs(n), Abs(d))
        s == IF d < 0 THEN -1 ELSE 1
    IN  [t |-> "float", v |-> <<(s * n) \div g, (s * d) \div g>>]

VStr(s) == [t |-> "str", v |-> s]

VList(xs) == [t |-> "list", v |-> xs]

VTuple(xs) == [t |-> "tuple", v |-> xs]

VDict(kvs) == [t |-> "dict", v |-> kvs]

Some(x) == [t |-> "some", v |-> x]

Ok(x) == [t |-> "ok", v |-> x]

Err(e) == [t |-> "err", v |-> e]

PErr(r) == [t |-> "perr", v |-> r]

Raise(name) == [t |-> "raise", v |-> name]

Unmodelled(what) == [t |-> "unmodelled", v |-> what]

\* the call produced no value: an exception (or an unmodelled behaviour) is
\* passed up unchanged by every caller, as a Python exception is
Failed(x) == x.t \in {"raise", "unmodelled"}

IsNum(x) == x.t \in {"bool", "int", "float"}

\* the numerator and denominator of a number (bool is a subclass of int)
NumN(x) == IF x.t = "float" THEN x.v[1]
           ELSE IF x.t = "bool" THEN (IF x.v THEN 1 ELSE 0) ELSE x.v

NumD(x) == IF x.t = "float" THEN x.v[2] ELSE 1

\* bool(x): None_.__bool__, and Python's rules for the builtin types; the
\* dataclasses Some, Ok, Err define neither __bool__ nor __len__
\* a test of "is not None" in place of the truth test
TruthyUnlessNone(x) == x.t # "none"

Truthy(x) ==
    CASE x.t = "none" -> FALSE
      [] x.t = "bool" -> x.v
      [] x.t = "int" -> x.v # 0
      [] x.t = "float" -> x.v[1] # 0
      [] x.t = "str" -> x.v # ""
      [] x.t \in {"list", "tuple", "dict"} -> Len(x.v) > 0
      [] OTHER -> TRUE

(***************************************************************************)
(* Characters and strings                                                  *)
(***************************************************************************)
\* s[i], zero-based; "" when i is out of range
At(s, i) == IF i >= 0 /\ i < Len(s) THEN SubSeq(s, i + 1, i + 1) ELSE ""

\* s[a:b] for 0 <= a, b
Slice(s, a, b) ==
    LET hi == IF b > Len(s) THEN Len(s) ELSE b
    IN  IF a >= hi THEN "" ELSE SubSeq(s, a + 1, hi)

\* s[a:]
From(s, a) == Slice(s, a, Len(s))

IsSpace(c) == c \in {" ", "\t", "\n", "\r", "\f"}

Digits == "0123456789"

Letters == "abcdefghijklmnopqrstuvwxyzABCDEFGHIJKLMNOPQRSTUVWXYZ"

\* the least element of a non-empty set of integers
Least(S) == CHOOSE j \in S : \A k \in S : j <= k

\* the greatest element of a non-empty set of integers
Greatest(S) == CHOOSE j \in S : \A k \in S : j >= k

\* the position of the character c in s at or after i, or -1
IndexIn(s, c, i) ==
    LET hits == {j \in i..(Len(s) - 1) : SubSeq(s, j + 1, j + 1) = c}
    IN  IF hits = {} THEN -1 ELSE Least(hits)

IsDigit(c) == c \in {"0", "1", "2", "3", "4", "5", "6", "7", "8", "9"}

IsLetter(c) == Len(c) = 1 /\ IndexIn(Letters, c, 0) >= 0

\* str.strip(): from the first to the last character that is not a space
Strip(s) ==
    LET inked == {j \in 0..(Len(s) - 1) : ~IsSpace(At(s, j))}
    IN  IF inked = {} THEN "" ELSE Slice(s, Least(inked), Greatest(inked) + 1)

StartsWith(s, p) == Len(s) >= Len(p) /\ Slice(s, 0, Len(p)) = p

EndsWith(s, p) == Len(s) >= Len(p) /\ From(s, Len(s) - Len(p)) = p

\* the positions at which p occurs in s
Occurrences(s, p) ==
    {j \in 0..(Len(s) - Len(p)) : SubSeq(s, j + 1, j + Len(p)) = p}

\* str.find(p) from position i: the first index of p in s, or -1
Find(s, p, i) ==
    LET hits == {j \in Occurrences(s, p) : j >= i}
    IN  IF hits = {} THEN -1 ELSE Least(hits)

\* str.rfind(p) at or before position i
RFind(s, p, i) ==
    LET hits == {j \in Occurrences(s, p) : j <= i}
    IN  IF hits = {} THEN -1 ELSE Greatest(hits)

\* p in s
Contains(s, p) ==
    \E j \in 0..(Len(s) - Len(p)) : SubSeq(s, j + 1, j + Len(p)) = p

RECURSIVE SplitOn(_, _)
\* s.split(sep): all the pieces
SplitOn(s, sep) ==
    LET i == Find(s, sep, 0)
    IN  IF i < 0 THEN <<s>>
        ELSE <<Slice(s, 0, i)>> \o SplitOn(From(s, i + Len(sep)), sep)

\* s.split(sep, 1): at most two pieces
SplitOnce(s, sep) ==
    LET i == Find(s, sep, 0)
    IN  IF i < 0 THEN <<s>> ELSE <<Slice(s, 0, i), From(s, i + Len(sep))>>

AllDigits(s) == \A j \in 0..(Len(s) - 1) : IsDigit(At(s, j))

RECURSIVE DigitsValue(_, _)
DigitsValue(s, acc) ==
    IF Len(s) = 0 THEN acc
    ELSE DigitsValue(From(s, 1), 10 * acc + IndexIn(Digits, At(s, 0), 0))

RECURSIVE Pow10(_)
Pow10(k) == IF k = 0 THEN 1 ELSE 10 * Pow10(k - 1)

RECURSIVE NatStr(_)
NatStr(n) ==
    IF n < 10 THEN At(Digits, n) ELSE NatStr(n \div 10) \o At(Digits, n % 10)

\* str(n) for an int
IntStr(n) == IF n < 0 THEN "-" \o NatStr(-n) ELSE NatStr(n)

(***************************************************************************)
(* Python's operators on values (the functions of the operator module that *)
(* eval_expr applies).  Floats are exact rationals: a result that an IEEE  *)
(* double would round is outside the modelled fragment.                    *)
(***************************************************************************)
\* Python's int is unbounded and its float has 53 bits; the model computes
\* on numbers whose numerator and denominator stay within NumLimit, and
\* an operation on a larger number is outside the modelled fragment
NumLimit == 32767

InRange(x) ==
    IsNum(x) => (Abs(NumN(x)) <= NumLimit /\ NumD(x) <= NumLimit)

\* floor(a / b) for integers, b # 0
FloorDiv(a, b) ==
    LET q == Abs(a) \div Abs(b)
        r == Abs(a) % Abs(b)
    IN  IF (a >= 0) = (b > 0) THEN q
        ELSE IF r = 0 THEN -q ELSE -q - 1

\* the printable ASCII characters in code-point order: 32..95 and 97..126
AsciiLow == " !\"#$%&'()*+,-./0123456789:;<=>?@ABCDEFGHIJKLMNOPQRSTUVWXYZ[\\]^_"

AsciiHigh == "abcdefghijklmnopqrstuvwxyz{|}~"

\* ord(c)
Ord(c) == IF IndexIn(AsciiLow, c, 0) >= 0 THEN IndexIn(AsciiLow, c, 0) + 32
          ELSE IndexIn(AsciiHigh, c, 0) + 97

RECURSIVE StrLess(_, _)
\* a < b for strings
StrLess(a, b) ==
    IF Len(b) = 0 THEN FALSE
    ELSE IF Len(a) = 0 THEN TRUE
    ELSE IF At(a, 0) = At(b, 0) THEN StrLess(From(a, 1), From(b, 1))
    ELSE Ord(At(a, 0)) < Ord(At(b, 0))

IsHashable(x) ==
    x.t \in {"none", "bool", "int", "float", "str", "tuple"}

RECURSIVE PyEq(_, _)
\* a == b, as a TLA+ boolean.  Numbers compare by value across bool, int
\* and float; a dataclass equals only a value of its own class with equal
\* fields; None_ has the default identity equality.
PyEq(a, b) ==
    IF IsNum(a) /\ IsNum(b) THEN NumN(a) * NumD(b) = NumN(b) * NumD(a)
    ELSE IF a.t # b.t THEN FALSE
    ELSE CASE a.t = "none" -> TRUE
           [] a.t = "str" -> a.v = b.v
           [] a.t \in {"list", "tuple"} ->
                /\ Len(a.v) = Len(b.v)
                /\ \A i \in 1..Len(a.v) : PyEq(a.v[i], b.v[i])
           [] a.t = "dict" ->
                /\ Len(a.v) = Len(b.v)
                /\ \A i \in 1..Len(a.v) : \E j \in 1..Len(b.v) :
                      a.v[i][1] = b.v[j][1] /\ PyEq(a.v[i][2], b.v[j][2])
           [] a.t \in {"some", "ok", "err"} -> PyEq(a.v, b.v)
           [] a.t = "perr" -> a.v = b.v
           [] OTHER -> FALSE

RECURSIVE FirstDiff(_, _, _)
\* the first position (from 1) where the sequences differ, or 0
FirstDiff(xs, ys, i) ==
    IF i > Len(xs) \/ i > Len(ys) THEN 0
    ELSE IF PyEq(xs[i], ys[i]) THEN FirstDiff(xs, ys, i + 1) ELSE i

RECURSIVE PyOrder(_, _, _)
\* a op b for op in < <= > >= : numbers by value, strings and sequences
\* lexicographically, a TypeError for every other pair
PyOrder(op, a, b) ==
    LET Rel(x, y) == CASE op = "<" -> x < y
                       [] op = "<=" -> x <= y
                       [] op = ">" -> x > y
                       [] op = ">=" -> x >= y
    IN  IF IsNum(a) /\ IsNum(b)
        THEN VBool(Rel(NumN(a) * NumD(b), NumN(b) * NumD(a)))
        ELSE IF a.t = "str" /\ b.t = "str"
        THEN VBool(IF a.v = b.v THEN op \in {"<=", ">="}
                   ELSE IF StrLess(a.v, b.v) THEN op \in {"<", "<="}
                   ELSE op \in {">", ">="})
        ELSE IF a.t = b.t /\ a.t \in {"list", "tuple"}
        THEN LET i == FirstDiff(a.v, b.v, 1)
             IN  IF i = 0 THEN VBool(Rel(Len(a.v), Len(b.v)))
                 ELSE PyOrder(op, a.v[i], b.v[i])
        ELSE Raise("TypeError")

\* operator.eq, ne, ge, le, gt, lt
Compare(op, a, b) ==
    CASE ~InRange(a) \/ ~InRange(b) -> Unmodelled("number range")
      [] op = "==" -> VBool(PyEq(a, b))
      [] op = "!=" -> VBool(~PyEq(a, b))
      [] OTHER -> PyOrder(op, a, b)

\* the number n/d as the int or float that Python's arithmetic returns
NumResult(isFloat, n, d) == IF isFloat THEN VFloat(n, d) ELSE VInt(n)

RECURSIVE Repeated(_, _)
\* xs * n for a string or a sequence
Repeated(xs, n) == IF n <= 0 THEN SubSeq(xs, 1, 0) ELSE xs \o Repeated(xs, n - 1)

\* operator.add
PyAdd(a, b) ==
    IF IsNum(a) /\ IsNum(b)
    THEN NumResult(a.t = "float" \/ b.t = "float",
                   NumN(a) * NumD(b) + NumN(b) * NumD(a), NumD(a) * NumD(b))
    ELSE IF a.t = b.t /\ a.t \in {"str", "list", "tuple"}
    THEN [t |-> a.t, v |-> a.v \o b.v]
    ELSE Raise("TypeError")

\* operator.sub
PySub(a, b) ==
    IF IsNum(a) /\ IsNum(b)
    THEN NumResult(a.t = "float" \/ b.t = "float",
                   NumN(a) * NumD(b) - NumN(b) * NumD(a), NumD(a) * NumD(b))
    ELSE Raise("TypeError")

\* operator.mul
PyMul(a, b) ==
    IF IsNum(a) /\ IsNum(b)
    THEN NumResult(a.t = "float" \/ b.t = "float",
                   NumN(a) * NumN(b), NumD(a) * NumD(b))
    ELSE IF a.t \in {"str", "list", "tuple"} /\ b.t \in {"bool", "int"}
    THEN [t |-> a.t, v |-> Repeated(a.v, NumN(b))]
    ELSE IF b.t \in {"str", "list", "tuple"} /\ a.t \in {"bool", "int"}
    THEN [t |-> b.t, v |-> Repeated(b.v, NumN(a))]
    ELSE Raise("TypeError")

\* operator.truediv: always a float, ZeroDivisionError on a zero divisor
PyTrueDiv(a, b) ==
    IF IsNum(a) /\ IsNum(b)
    THEN IF NumN(b) = 0 THEN Raise("ZeroDivisionError")
         ELSE VFloat(NumN(a) * NumD(b), NumD(a) * NumN(b))
    ELSE Raise("TypeError")

\* operator.mod: the result has the sign of the divisor; a str on the left
\* is printf-style formatting, which takes a mapping or an empty tuple
\* when the str has no conversion in it
PyMod(a, b) ==
    IF IsNum(a) /\ IsNum(b)
    THEN IF NumN(b) = 0 THEN Raise("ZeroDivisionError")
         ELSE LET q == FloorDiv(NumN(a) * NumD(b), NumD(a) * NumN(b))
              IN  NumResult(a.t = "float" \/ b.t = "float",
                            NumN(a) * NumD(b) - q * NumN(b) * NumD(a),
                            NumD(a) * NumD(b))
    ELSE IF a.t = "str"
    THEN IF Contains(a.v, "%") THEN Unmodelled("str % x")
         ELSE IF b.t \in {"list", "dict"} \/ b = VTuple(<<>>) THEN a
         ELSE Raise("TypeError")
    ELSE Raise("TypeError")

\* a table with the functions of + and - exchanged
ArithExchanged(op, a, b) ==
    CASE ~InRange(a) \/ ~InRange(b) -> Unmodelled("number range")
      [] op = "+" -> PySub(a, b)
      [] op = "-" -> PyAdd(a, b)
      [] op = "*" -> PyMul(a, b)
      [] op = "/" -> PyTrueDiv(a, b)
      [] op = "%" -> PyMod(a, b)

\* the five functions of eval_expr's arithmetic table
Arith(op, a, b) ==
    CASE ~InRange(a) \/ ~InRange(b) -> Unmodelled("number range")
      [] op = "+" -> PyAdd(a, b)
      [] op = "-" -> PySub(a, b)
      [] op = "*" -> PyMul(a, b)
      [] op = "/" -> PyTrueDiv(a, b)
      [] op = "%" -> PyMod(a, b)

\* str(x), as a TLA+ string or a failure
PyStr(x) ==
    CASE x.t = "str" -> x
      [] x.t = "int" -> VStr(IntStr(x.v))
      [] x.t = "bool" -> VStr(IF x.v THEN "True" ELSE "False")
      [] x.t = "none" -> VStr("None_")
      [] x.t = "float" /\ x.v[2] = 1 /\ Abs(x.v[1]) < Pow10(16) ->
            VStr(IntStr(x.v[1]) \o ".0")
      [] OTHER -> Unmodelled("str(x)")

(***************************************************************************)
(* Literals: eval_literal, with Python's int() and float() on strings      *)
(***************************************************************************)
Lowers == "abcdefghijklmnopqrstuvwxyz"

Uppers == "ABCDEFGHIJKLMNOPQRSTUVWXYZ"

RECURSIVE Lower(_)
\* str.lower()
Lower(s) ==
    IF Len(s) = 0 THEN ""
    ELSE LET c == At(s, 0)
             i == IndexIn(Uppers, c, 0)
         IN  (IF i >= 0 THEN At(Lowers, i) ELSE c) \o Lower(From(s, 1))

RECURSIVE Upper(_)
\* str.upper()
Upper(s) ==
    IF Len(s) = 0 THEN ""
    ELSE LET c == At(s, 0)
             i == IndexIn(Lowers, c, 0)
         IN  (IF i >= 0 THEN At(Uppers, i) ELSE c) \o Upper(From(s, 1))

\* every character of s occurs in chars
AllIn(s, chars) == \A j \in 0..(Len(s) - 1) : Contains(chars, At(s, j))

RECURSIVE Without(_, _)
\* s with every occurrence of the character c removed
Without(s, c) ==
    IF Len(s) = 0 THEN ""
    ELSE (IF At(s, 0) = c THEN "" ELSE At(s, 0)) \o Without(From(s, 1), c)

\* s without a leading sign
Unsigned(s) == IF At(s, 0) \in {"+", "-"} THEN From(s, 1) ELSE s

Sign(s) == IF At(s, 0) = "-" THEN -1 ELSE 1

\* int(s) accepts s: an optional sign, then digits that single underscores
\* may separate
IsIntText(s) ==
    LET b == Unsigned(Strip(s))
    IN  /\ Len(b) > 0
        /\ IsDigit(At(b, 0)) /\ IsDigit(At(b, Len(b) - 1))
        /\ AllIn(b, "0123456789_")
        /\ ~Contains(b, "__")

IntOfText(s) ==
    LET t == Strip(s)
    IN  Sign(t) * DigitsValue(Without(Unsigned(t), "_"), 0)

\* float(s) accepts s as a plain decimal: an optional sign, digits, at most
\* one point, at least one digit
IsDecimalText(s) ==
    LET b == Unsigned(Strip(s))
        parts == SplitOn(b, ".")
    IN  /\ Len(parts) <= 2
        /\ \A i \in 1..Len(parts) : AllDigits(parts[i])
        /\ \E i \in 1..Len(parts) : Len(parts[i]) > 0

DecimalOfText(s) ==
    LET t == Strip(s)
        parts == SplitOn(Unsigned(t), ".")
        frac == IF Len(parts) = 2 THEN parts[2] ELSE ""
    IN  VFloat(Sign(t) * DigitsValue(parts[1] \o frac, 0), Pow10(Len(frac)))

\* float(s) may accept s in a form left out of the model: an exponent,
\* underscores, inf, nan
IsOtherFloatText(s) ==
    LET b == Unsigned(Strip(s))
    IN  \/ Lower(b) \in {"inf", "infinity", "nan"}
        \/ /\ Len(b) > 0
           /\ (Contains(b, "e") \/ Contains(b, "E") \/ Contains(b, "_"))
           /\ AllIn(b, "0123456789._eE+-")
           /\ \E i \in 0..(Len(b) - 1) : IsDigit(At(b, i))

eval_literal(s0) ==
    LET s == Strip(s0)
    IN  IF s = "true" THEN VBool(TRUE)
        ELSE IF s = "false" THEN VBool(FALSE)
        ELSE IF s = "null" THEN NONE
        ELSE IF StartsWith(s, "\"") /\ EndsWith(s, "\"")
        THEN VStr(Slice(s, 1, Len(s) - 1))
        ELSE IF StartsWith(s, "'") /\ EndsWith(s, "'")
        THEN VStr(Slice(s, 1, Len(s) - 1))
        ELSE IF IsIntText(s) THEN VInt(IntOfText(s))
        ELSE IF IsDecimalText(s) THEN DecimalOfText(s)
        ELSE IF IsOtherFloatText(s) THEN Unmodelled("float(s)")
        ELSE VStr(s)

(***************************************************************************)
(* Scanning at bracket depth 0                                             *)
(***************************************************************************)
RECURSIVE FindLoop(_, _, _, _, _, _)
\* the while loop of find_at_depth_0 from position i
FindLoop(expr, target, rightmost, i, depth, found) ==
    IF ~(i < Len(expr) - Len(target) + 1) THEN found
    ELSE LET c == At(expr, i)
         IN  IF c \in {"(", "[", "{"}
             THEN FindLoop(expr, target, rightmost, i + 1, depth + 1, found)
             ELSE IF c \in {")", "]", "}"}
             THEN FindLoop(expr, target, rightmost, i + 1, depth - 1, found)
             ELSE IF depth = 0 /\ Slice(expr, i, i + Len(target)) = target
             THEN IF rightmost
                  THEN FindLoop(expr, target, rightmost, i + 1, depth, i)
                  ELSE i
             ELSE FindLoop(expr, target, rightmost, i + 1, depth, found)

\* a search that stops at the first match whatever rightmost is
find_at_depth_0_first(expr, target, rightmost) ==
    FindLoop(expr, target, FALSE, 0, 0, -1)

find_at_depth_0(expr, target, rightmost) ==
    FindLoop(expr, target, rightmost, 0, 0, -1)

RECURSIVE ParenDepth(_, _, _)
\* eval_expr's count over expr[paren_idx:]: "(" adds one, ")" takes one
ParenDepth(s, i, depth) ==
    IF i >= Len(s) THEN depth
    ELSE ParenDepth(s, i + 1,
                    IF At(s, i) = "(" THEN depth + 1
                    ELSE IF At(s, i) = ")" THEN depth - 1 ELSE depth)

RECURSIVE QPos(_, _, _)
\* eval_expr's scan for the first "?" at depth 0, or -1
QPos(expr, i, depth) ==
    IF i >= Len(expr) THEN -1
    ELSE LET c == At(expr, i)
         IN  IF c \in {"(", "[", "{"} THEN QPos(expr, i + 1, depth + 1)
             ELSE IF c \in {")", "]", "}"} THEN QPos(expr, i + 1, depth - 1)
             ELSE IF c = "?" /\ depth = 0 THEN i
             ELSE QPos(expr, i + 1, depth)

\* str.isidentifier() on ASCII text
IsIdentifier(s) ==
    /\ Len(s) > 0
    /\ (IsLetter(At(s, 0)) \/ At(s, 0) = "_")
    /\ \A i \in 0..(Len(s) - 1) :
          IsLetter(At(s, i)) \/ IsDigit(At(s, i)) \/ At(s, i) = "_"

RECURSIVE SplitArgsLoop(_, _, _, _, _)
SplitArgsLoop(s, i, depth, current, result) ==
    IF i >= Len(s)
    THEN IF Strip(current) # "" THEN Append(result, Strip(current)) ELSE result
    ELSE LET c == At(s, i)
             d == IF c \in {"(", "{", "["} THEN depth + 1
                  ELSE IF c \in {")", "}", "]"} THEN depth - 1 ELSE depth
         IN  IF c = "," /\ d = 0
             THEN SplitArgsLoop(s, i + 1, d, "", Append(result, Strip(current)))
             ELSE SplitArgsLoop(s, i + 1, d, current \o c, result)

split_args(s) == SplitArgsLoop(s, 0, 0, "", <<>>)

(***************************************************************************)
(* Mappings and binding contexts                                           *)
(***************************************************************************)
RECURSIVE DictIndex(_, _, _)
\* the position (from 1) of key k in the pairs kvs, or 0
DictIndex(kvs, k, i) ==
    IF i > Len(kvs) THEN 0
    ELSE IF kvs[i][1] = k THEN i ELSE DictIndex(kvs, k, i + 1)

\* d.get(k, NONE) on the pairs of a dict
DictGet(kvs, k) ==
    LET i == DictIndex(kvs, k, 1) IN IF i = 0 THEN NONE ELSE kvs[i][2]

\* d[k] = x on the pairs of a dict
DictSet(kvs, k, x) ==
    LET i == DictIndex(kvs, k, 1)
    IN  IF i = 0 THEN Append(kvs, <<k, x>>)
        ELSE [kvs EXCEPT ![i] = <<k, x>>]

\* the binding context {} of evaluate
EmptyCtx == [n \in {} |-> NONE]

\* ctx[name] = x
Bind(ctx, name, x) == (name :> x) @@ ctx

RECURSIVE BindParamsShort(_, _, _, _)
\* a loop that stops at the end of the input and leaves the names beyond it
\* unbound
BindParamsShort(ctx, names, xs, i) ==
    IF i > Len(names) \/ i > Len(xs) THEN ctx
    ELSE BindParamsShort(Bind(ctx, names[i], xs[i]), names, xs, i + 1)

RECURSIVE BindParams(_, _, _, _)
\* evaluate's loop over enumerate(param_names) for a tuple or list input
BindParams(ctx, names, xs, i) ==
    IF i > Len(names) THEN ctx
    ELSE BindParams(Bind(ctx, names[i], IF i <= Len(xs) THEN xs[i] ELSE NONE),
                    names, xs, i + 1)

\* parse_expr's parameter list
ParamNames(params) ==
    IF StartsWith(params, "(") /\ EndsWith(params, ")")
    THEN LET ps == SplitOn(Slice(params, 1, Len(params) - 1), ",")
         IN  [i \in 1..Len(ps) |-> Strip(ps[i])]
    ELSE <<Strip(params)>>

\* a context that spreads a tuple or list over the names even when there is
\* one name only
BuildCtxSpread(names, input) ==
    IF input.t \in {"tuple", "list"}
    THEN BindParams(EmptyCtx, names, input.v, 1)
    ELSE Bind(EmptyCtx, names[1], input)

\* the context evaluate builds for input_
BuildCtx(names, input) ==
    IF Len(names) = 1 THEN Bind(EmptyCtx, names[1], input)
    ELSE IF input.t \in {"tuple", "list"}
    THEN BindParams(EmptyCtx, names, input.v, 1)
    ELSE Bind(EmptyCtx, names[1], input)

(***************************************************************************)
(* Attribute and index access on Python values                             *)
(***************************************************************************)
StrMethods ==
    {"capitalize", "casefold", "center", "count", "encode", "endswith",
     "expandtabs", "find", "format", "format_map", "index", "isalnum",
     "isalpha", "isascii", "isdecimal", "isdigit", "isidentifier", "islower",
     "isnumeric", "isprintable", "isspace", "istitle", "isupper", "join",
     "ljust", "lower", "lstrip", "maketrans", "partition", "removeprefix",
     "removesuffix", "replace", "rfind", "rindex", "rjust", "rpartition",
     "rsplit", "rstrip", "split", "splitlines", "startswith", "strip",
     "swapcase", "title", "translate", "upper", "zfill"}

\* hasattr(x, part) / getattr(x, part) for a value that is not a dict:
\* [has |-> hasattr, val |-> the attribute]
Attr(x, part) ==
    LET yes(val) == [has |-> TRUE, val |-> val]
        no == [has |-> FALSE, val |-> NONE]
        method == yes(Unmodelled("bound method"))
    IN  IF x.t = "none" /\ part = "__doc__"
        THEN yes(VStr("Explicit None value (distinct from Python None)"))
        ELSE IF StartsWith(part, "__") /\ EndsWith(part, "__") /\ Len(part) > 4
        THEN yes(Unmodelled("dunder attribute"))
        ELSE CASE x.t \in {"some", "ok"} /\ part = "value" -> yes(x.v)
               [] x.t = "err" /\ part = "error" -> yes(x.v)
               [] x.t = "perr" /\ part = "reason" -> yes(VStr(x.v))
               [] x.t \in {"ok", "err"}
                    /\ part \in {"is_ok", "is_err", "unwrap"} -> method
               [] x.t = "none" /\ part = "_instance" -> yes(x)
               [] x.t \in {"int", "bool"}
                    /\ part \in {"real", "numerator"} -> yes(VInt(NumN(x)))
               [] x.t \in {"int", "bool"} /\ part = "imag" -> yes(VInt(0))
               [] x.t \in {"int", "bool"} /\ part = "denominator" ->
                    yes(VInt(1))
               [] x.t \in {"int", "bool"}
                    /\ part \in {"bit_length", "bit_count", "conjugate",
                                 "to_bytes", "from_bytes", "is_integer",
                                 "as_integer_ratio"} -> method
               [] x.t = "float" /\ part = "real" -> yes(x)
               [] x.t = "float" /\ part = "imag" -> yes(VFloat(0, 1))
               [] x.t = "float"
                    /\ part \in {"conjugate", "hex", "fromhex", "is_integer",
                                 "as_integer_ratio"} -> method
               [] x.t = "str" /\ part \in StrMethods -> method
               [] x.t = "list"
                    /\ part \in {"append", "clear", "copy", "count", "extend",
                                 "index", "insert", "pop", "remove",
                                 "reverse", "sort"} -> method
               [] x.t = "tuple" /\ part \in {"count", "index"} -> method
               [] OTHER -> no

\* the quotient of n by d truncated towards zero
Trunc(n, d) == IF n >= 0 THEN n \div d ELSE -((-n) \div d)

\* int(x)
PyInt(x) ==
    CASE x.t \in {"int", "bool"} -> VInt(NumN(x))
      [] x.t = "float" -> VInt(Trunc(x.v[1], x.v[2]))
      [] x.t = "str" ->
            IF IsIntText(x.v) THEN VInt(IntOfText(x.v)) ELSE Raise("ValueError")
      [] OTHER -> Raise("TypeError")

\* float(x)
PyFloat(x) ==
    CASE IsNum(x) -> VFloat(NumN(x), NumD(x))
      [] x.t = "str" ->
            IF IsDecimalText(x.v) THEN DecimalOfText(x.v)
            ELSE IF IsOtherFloatText(x.v) THEN Unmodelled("float(s)")
            ELSE Raise("ValueError")
      [] OTHER -> Raise("TypeError")

\* xs[i] on a list or tuple: a negative i counts from the end
SeqItem(xs, i) ==
    IF i >= 0 /\ i < Len(xs) THEN xs[i + 1]
    ELSE IF i < 0 /\ -i <= Len(xs) THEN xs[Len(xs) + i + 1]
    ELSE Raise("IndexError")

RECURSIVE Chars(_)
\* the characters of s as str values
Chars(s) == IF Len(s) = 0 THEN <<>> ELSE <<VStr(At(s, 0))>> \o Chars(From(s, 1))

\* the elements iter(x) yields, as a list value, or a TypeError
Iterate(x) ==
    CASE x.t \in {"list", "tuple"} -> VList(x.v)
      [] x.t = "str" -> VList(Chars(x.v))
      [] x.t = "dict" -> VList([i \in 1..Len(x.v) |-> VStr(x.v[i][1])])
      [] OTHER -> Raise("TypeError")

(***************************************************************************)
(* The evaluator: parse_expr and eval_expr                                 *)
(***************************************************************************)
ComparisonOps == <<"==", "!=", ">=", "<=", ">", "<">>

ArithmeticOps == <<"+", "-", "*", "/", "%">>

\* eval_expr's test for the function-call form
IsCallForm(expr) ==
    /\ Contains(expr, "(")
    /\ EndsWith(expr, ")")
    /\ LET paren_idx == Find(expr, "(", 0)
       IN  /\ IsIdentifier(Slice(expr, 0, paren_idx))
           /\ ParenDepth(From(expr, paren_idx), 0, 0) = 0

\* eval_expr's test for the ternary form
IsTernaryForm(expr) ==
    Contains(expr, "?") /\ Contains(expr, ":") /\ QPos(expr, 0, 0) > 0

RECURSIVE eval_expr(_, _)
RECURSIVE parse_expr(_, _)
RECURSIVE eval_object(_, _)
RECURSIVE ObjectLoop(_, _, _, _, _, _)
RECURSIVE eval_array(_, _)
RECURSIVE ArrayLoop(_, _, _, _, _, _)
RECURSIVE eval_function_call(_, _)
RECURSIVE eval_ternary(_, _)
RECURSIVE EvalComparison(_, _, _)
RECURSIVE EvalLogical(_, _)
RECURSIVE EvalArithmetic(_, _, _)
RECURSIVE eval_index_access(_, _)
RECURSIVE FilterItems(_, _, _, _)
RECURSIVE MapItems(_, _, _, _)

\* parse_expr(expr)(input): the compiled closure applied to one input
parse_expr(expr, input) ==
    IF ~Contains(expr, "=>") THEN eval_literal(expr)
    ELSE LET parts == SplitOnce(expr, "=>")
             params == Strip(parts[1])
             body == Strip(parts[2])
         IN  eval_expr(body, BuildCtx(ParamNames(params), input))

\* one "key: value" entry of an object literal, stored into result
ObjectEntry(current, result, ctx) ==
    LET kv == SplitOnce(current, ":")
        x == eval_expr(Strip(kv[2]), ctx)
    IN  IF Failed(x) THEN x ELSE VDict(DictSet(result.v, Strip(kv[1]), x))

\* the character loop of eval_object; result is the dict built so far
ObjectLoop(inner, i, depth, current, result, ctx) ==
    IF i >= Len(inner)
    THEN IF Strip(current) # "" /\ Contains(current, ":")
         THEN ObjectEntry(current, result, ctx)
         ELSE result
    ELSE LET c == At(inner, i)
             d == IF c \in {"{", "["} THEN depth + 1
                  ELSE IF c \in {"}", "]"} THEN depth - 1 ELSE depth
         IN  IF c = "," /\ d = 0
             THEN LET r == IF Contains(current, ":")
                           THEN ObjectEntry(current, result, ctx)
                           ELSE result
                  IN  IF Failed(r) THEN r
                      ELSE ObjectLoop(inner, i + 1, d, "", r, ctx)
             ELSE ObjectLoop(inner, i + 1, d, current \o c, result, ctx)

eval_object(expr, ctx) ==
    LET inner == Strip(Slice(expr, 1, Len(expr) - 1))
    IN  IF inner = "" THEN VDict(<<>>)
        ELSE ObjectLoop(inner, 0, 0, "", VDict(<<>>), ctx)

\* the character loop of eval_array; result is the list built so far
ArrayLoop(inner, i, depth, current, result, ctx) ==
    IF i >= Len(inner)
    THEN IF Strip(current) # ""
         THEN LET x == eval_expr(Strip(current), ctx)
              IN  IF Failed(x) THEN x ELSE VList(Append(result.v, x))
         ELSE result
    ELSE LET c == At(inner, i)
             d == IF c \in {"{", "["} THEN depth + 1
                  ELSE IF c \in {"}", "]"} THEN depth - 1 ELSE depth
         IN  IF c = "," /\ d = 0
             THEN LET x == eval_expr(Strip(current), ctx)
                  IN  IF Failed(x) THEN x
                      ELSE ArrayLoop(inner, i + 1, d, "",
                                     VList(Append(result.v, x)), ctx)
             ELSE ArrayLoop(inner, i + 1, d, current \o c, result, ctx)

eval_array(expr, ctx) ==
    LET inner == Strip(Slice(expr, 1, Len(expr) - 1))
    IN  IF inner = "" THEN VList(<<>>)
        ELSE ArrayLoop(inner, 0, 0, "", VList(<<>>), ctx)

eval_ternary(expr, ctx) ==
    LET q_idx == Find(expr, "?", 0)
        c_idx == RFind(expr, ":", Len(expr) - 1)
        cond == eval_expr(Slice(expr, 0, q_idx), ctx)
        then_val == eval_expr(Slice(expr, q_idx + 1, c_idx), ctx)
        else_val == eval_expr(From(expr, c_idx + 1), ctx)
    IN  IF Failed(cond) THEN cond
        ELSE IF Failed(then_val) THEN then_val
        ELSE IF Failed(else_val) THEN else_val
        ELSE IF Truthy(cond) THEN then_val ELSE else_val

\* the comparison loop of eval_expr from the k-th operator of its table
EvalComparison(expr, ctx, k) ==
    IF k > Len(ComparisonOps) THEN EvalLogical(expr, ctx)
    ELSE LET op == ComparisonOps[k]
             idx == find_at_depth_0(expr, op, FALSE)
         IN  IF Contains(expr, op) /\ idx >= 0
             THEN LET left == eval_expr(Slice(expr, 0, idx), ctx)
                      right == eval_expr(From(expr, idx + Len(op)), ctx)
                  IN  IF Failed(left) THEN left
                      ELSE IF Failed(right) THEN right
                      ELSE Compare(op, left, right)
             ELSE EvalComparison(expr, ctx, k + 1)

\* the logical operators of eval_expr: Python's and / or return an operand
EvalLogical(expr, ctx) ==
    LET and_idx == find_at_depth_0(expr, " && ", FALSE)
        or_idx == find_at_depth_0(expr, " || ", FALSE)
    IN  IF Contains(expr, " && ") /\ and_idx >= 0
        THEN LET left == eval_expr(Slice(expr, 0, and_idx), ctx)
             IN  IF Failed(left) \/ ~Truthy(left) THEN left
                 ELSE eval_expr(From(expr, and_idx + 4), ctx)
        ELSE IF Contains(expr, " || ") /\ or_idx >= 0
        THEN LET left == eval_expr(Slice(expr, 0, or_idx), ctx)
             IN  IF Failed(left) \/ Truthy(left) THEN left
                 ELSE eval_expr(From(expr, or_idx + 4), ctx)
        ELSE EvalArithmetic(expr, ctx, 1)

\* eval_property_access
eval_property_access(expr, ctx) ==
    LET parts == SplitOn(expr, ".")
        start == IF parts[1] \in DOMAIN ctx THEN ctx[parts[1]]
                 ELSE eval_literal(parts[1])
        Step(value, part) ==
            IF Failed(value) \/ value.t = "stop" THEN value
            ELSE IF value.t = "dict" THEN DictGet(value.v, part)
            ELSE IF Attr(value, part).has THEN Attr(value, part).val
            ELSE [t |-> "stop", v |-> 0]
        Walk[i \in 1..Len(parts)] ==
            IF i = 1 THEN start ELSE Step(Walk[i - 1], parts[i])
        last == Walk[Len(parts)]
    IN  IF last.t = "stop" THEN NONE ELSE last

\* the arithmetic loop of eval_expr from the k-th operator of its table,
\* then property access, index access, variable lookup and literal
EvalArithmetic(expr, ctx, k) ==
    IF k > Len(ArithmeticOps)
    THEN IF Contains(expr, ".") /\ ~IsDigit(At(expr, 0))
         THEN eval_property_access(expr, ctx)
         ELSE IF Contains(expr, "[") /\ EndsWith(expr, "]")
         THEN eval_index_access(expr, ctx)
         ELSE IF expr \in DOMAIN ctx THEN ctx[expr]
         ELSE eval_literal(expr)
    ELSE LET op == ArithmeticOps[k]
             spaced_op == " " \o op \o " "
             idx == find_at_depth_0(expr, spaced_op, TRUE)
             left_part == Strip(Slice(expr, 0, idx))
             right_part == Strip(From(expr, idx + Len(spaced_op)))
         IN  IF Contains(expr, spaced_op) /\ idx >= 0
                /\ left_part # "" /\ right_part # ""
             THEN LET left == eval_expr(left_part, ctx)
                      right == eval_expr(right_part, ctx)
                  IN  IF Failed(left) THEN left
                      ELSE IF Failed(right) THEN right
                      ELSE IF left.t = "str" /\ op = "+"
                      THEN IF Failed(PyStr(right)) THEN PyStr(right)
                           ELSE VStr(left.v \o PyStr(right).v)
                      ELSE Arith(op, left, right)
             ELSE EvalArithmetic(expr, ctx, k + 1)

eval_index_access(expr, ctx) ==
    LET bracket_idx == Find(expr, "[", 0)
        base == eval_expr(Slice(expr, 0, bracket_idx), ctx)
        index == eval_expr(Slice(expr, bracket_idx + 1, Len(expr) - 1), ctx)
    IN  IF Failed(base) THEN base
        ELSE IF Failed(index) THEN index
        ELSE IF base.t \in {"list", "tuple"}
        THEN IF Failed(PyInt(index)) THEN PyInt(index)
             ELSE IF PyInt(index).v < Len(base.v)
             THEN SeqItem(base.v, PyInt(index).v)
             ELSE NONE
        ELSE IF base.t = "dict"
        THEN IF ~IsHashable(index) THEN Raise("TypeError")
             ELSE IF index.t = "str" THEN DictGet(base.v, index.v)
             ELSE NONE
        ELSE NONE

\* the list comprehension [x for x in lst if pred(x)] from position i
FilterItems(xs, pred, i, acc) ==
    IF i > Len(xs) THEN VList(acc)
    ELSE LET keep == parse_expr(pred, xs[i])
         IN  IF Failed(keep) THEN keep
             ELSE FilterItems(xs, pred, i + 1,
                              IF Truthy(keep) THEN Append(acc, xs[i]) ELSE acc)

\* the list comprehension [fn(x) for x in lst] from position i
MapItems(xs, fn, i, acc) ==
    IF i > Len(xs) THEN VList(acc)
    ELSE LET y == parse_expr(fn, xs[i])
         IN  IF Failed(y) THEN y
             ELSE MapItems(xs, fn, i + 1, Append(acc, y))

RECURSIVE Extreme(_, _, _, _)
\* min(xs) / max(xs): the running best from position i; op is "<" or ">"
Extreme(op, xs, i, best) ==
    IF i > Len(xs) THEN best
    ELSE LET c == PyOrder(op, xs[i], best)
         IN  IF Failed(c) THEN c
             ELSE Extreme(op, xs, i + 1, IF c.v THEN xs[i] ELSE best)

RECURSIVE SumItems(_, _, _)
\* sum(xs): the running total from position i
SumItems(xs, i, total) ==
    IF i > Len(xs) \/ Failed(total) THEN total
    ELSE SumItems(xs, i + 1, PyAdd(total, xs[i]))

BuiltinNames ==
    {"length", "uppercase", "lowercase", "toString", "toNumber", "abs",
     "min", "max", "sum", "keys", "values"}

\* builtins[fn_name](arg)
Builtin(fn_name, arg) ==
    CASE fn_name = "length" ->
            IF arg.t \in {"str", "list", "tuple", "dict"}
            THEN VInt(Len(arg.v)) ELSE VInt(0)
      [] fn_name = "uppercase" ->
            IF Failed(PyStr(arg)) THEN PyStr(arg) ELSE VStr(Upper(PyStr(arg).v))
      [] fn_name = "lowercase" ->
            IF Failed(PyStr(arg)) THEN PyStr(arg) ELSE VStr(Lower(PyStr(arg).v))
      [] fn_name = "toString" -> PyStr(arg)
      [] fn_name = "toNumber" ->
            IF arg.t \in {"int", "bool"} THEN PyInt(arg)
            ELSE IF arg.t = "float" THEN PyFloat(arg)
            ELSE IF arg.t = "str"
            THEN IF Contains(arg.v, ".") THEN PyFloat(arg) ELSE PyInt(arg)
            ELSE Raise("TypeError")
      [] fn_name = "abs" ->
            IF arg.t \in {"int", "bool"} THEN VInt(Abs(NumN(arg)))
            ELSE IF arg.t = "float" THEN VFloat(Abs(arg.v[1]), arg.v[2])
            ELSE Raise("TypeError")
      [] fn_name \in {"min", "max"} ->
            LET it == Iterate(arg)
            IN  IF Failed(it) THEN it
                ELSE IF Len(it.v) = 0 THEN Raise("ValueError")
                ELSE Extreme(IF fn_name = "min" THEN "<" ELSE ">",
                             it.v, 2, it.v[1])
      [] fn_name = "sum" ->
            LET it == Iterate(arg)
            IN  IF Failed(it) THEN it ELSE SumItems(it.v, 1, VInt(0))
      [] fn_name = "keys" ->
            IF arg.t = "dict"
            THEN VList([i \in 1..Len(arg.v) |-> VStr(arg.v[i][1])])
            ELSE VList(<<>>)
      [] fn_name = "values" ->
            IF arg.t = "dict"
            THEN VList([i \in 1..Len(arg.v) |-> arg.v[i][2]])
            ELSE VList(<<>>)

eval_function_call(expr, ctx) ==
    LET paren_idx == Find(expr, "(", 0)
        fn_name == Slice(expr, 0, paren_idx)
        args_str == Slice(expr, paren_idx + 1, Len(expr) - 1)
        parts == split_args(args_str)
    IN  IF fn_name \in BuiltinNames
        THEN LET arg == eval_expr(args_str, ctx)
             IN  IF Failed(arg) THEN arg ELSE Builtin(fn_name, arg)
        ELSE IF fn_name \in {"filter", "map"}
        THEN IF Len(parts) = 0 THEN Raise("IndexError")
             ELSE LET lst == eval_expr(parts[1], ctx)
                  IN  IF Failed(lst) THEN lst
                      ELSE IF Len(parts) < 2 THEN Raise("IndexError")
                      ELSE IF Failed(Iterate(lst)) THEN Iterate(lst)
                      ELSE IF fn_name = "filter"
                      THEN FilterItems(Iterate(lst).v, parts[2], 1, <<>>)
                      ELSE MapItems(Iterate(lst).v, parts[2], 1, <<>>)
        ELSE NONE

eval_expr(expr0, ctx) ==
    LET expr == Strip(expr0)
    IN  IF StartsWith(expr, "{") /\ EndsWith(expr, "}")
        THEN eval_object(expr, ctx)
        ELSE IF StartsWith(expr, "[") /\ EndsWith(expr, "]")
        THEN eval_array(expr, ctx)
        ELSE IF IsCallForm(expr) THEN eval_function_call(expr, ctx)
        ELSE IF IsTernaryForm(expr) THEN eval_ternary(expr, ctx)
        ELSE EvalComparison(expr, ctx, 1)

(***************************************************************************)
(* Blocks.  A Block is the record of what its factory closed over; k names *)
(* the factory.  Invoking a Block yields [v |-> the returned value or the  *)
(* raised failure, tr |-> the invocations made, in the order they began].  *)
(* An event of kind "block" is Block.__call__, one of kind "fn" is a call  *)
(* of a closure that parse_expr returned; d is the nesting depth.          *)
(***************************************************************************)
Event(d, kind, name, in, out) ==
    [d |-> d, kind |-> kind, name |-> name, in |-> in, out |-> out]

\* the default of repeat's max_iterations
DefaultMaxIterations == 1000

\* a branch target given as an expression string, not as a Block
Str(e) == [k |-> "str", e |-> e]

transform(fn) ==
    [k |-> "transform", name |-> "transform(" \o fn \o ")", e |-> fn]

filter(predicate) ==
    [k |-> "filter", name |-> "filter(" \o predicate \o ")", e |-> predicate]

branch(condition, then, else_) ==
    [k |-> "branch", name |-> "branch(" \o condition \o ")",
     c |-> condition, th |-> then, el |-> else_]

RECURSIVE JoinNames(_, _)
\* " | ".join(b.name for b in blocks), from position i
JoinNames(blocks, i) ==
    IF i > Len(blocks) THEN ""
    ELSE blocks[i].name
         \o (IF i < Len(blocks) THEN " | " ELSE "")
         \o JoinNames(blocks, i + 1)

pipe(blocks) ==
    [k |-> "pipe", name |-> "pipe(" \o JoinNames(blocks, 1) \o ")",
     us |-> blocks]

parallel(blocks) ==
    [k |-> "parallel",
     name |-> "parallel(" \o IntStr(Len(blocks)) \o " blocks)",
     us |-> blocks]

fanout(blocks) == parallel(blocks)

merge(fn) == [k |-> "merge", name |-> "merge(" \o fn \o ")", e |-> fn]

repeat(condition, block, max_iterations) ==
    [k |-> "repeat", name |-> "repeat(" \o condition \o ")",
     c |-> condition, b |-> block, max |-> max_iterations]

\* the name leaves out repr(default), which has no effect on execution
unwrap_or(default) == [k |-> "unwrap_or", name |-> "unwrap_or", d |-> default]

unwrap == [k |-> "unwrap", name |-> "unwrap()"]

map_ok(fn_expr) ==
    [k |-> "map_ok", name |-> "map_ok(" \o fn_expr \o ")", e |-> fn_expr]

map_err(fn_expr) ==
    [k |-> "map_err", name |-> "map_err(" \o fn_expr \o ")", e |-> fn_expr]

is_ok == [k |-> "is_ok", name |-> "is_ok()"]

is_err == [k |-> "is_err", name |-> "is_err()"]

\* a closure returned by parse_expr, as a callable
Fn(expr) == [k |-> "fn", name |-> expr, e |-> expr]

RECURSIVE Call(_, _, _)
RECURSIVE FilterLoop(_, _, _, _, _, _)
RECURSIVE PipeLoop(_, _, _, _, _)
RECURSIVE ParallelLoop(_, _, _, _, _, _)
RECURSIVE RepeatPass(_, _, _)
RECURSIVE RepeatLoop(_, _, _, _)

\* a closure returned by parse_expr, called on x at depth d
CallFn(expr, x, d) == Call(Fn(expr), x, d)

\* then_fn(x) / else_fn(x): the target itself when it is callable, else the
\* closure compiled from it
CallTarget(target, x, d) ==
    IF target.k = "str" THEN CallFn(target.e, x, d) ELSE Call(target, x, d)

\* [item for item in x if pred(item)] from position i
FilterLoop(pred, xs, i, kept, tr, d) ==
    IF i > Len(xs) THEN [v |-> VList(kept), tr |-> tr]
    ELSE LET c == CallFn(pred, xs[i], d)
         IN  IF Failed(c.v) THEN [v |-> c.v, tr |-> tr \o c.tr]
             ELSE FilterLoop(pred, xs, i + 1,
                             IF Truthy(c.v) THEN Append(kept, xs[i]) ELSE kept,
                             tr \o c.tr, d)

\* a filter that returns a kept input bare, not wrapped in Some
filter_fn_bare(u, x, d) ==
    IF x.t = "list" THEN FilterLoop(u.e, x.v, 1, <<>>, <<>>, d)
    ELSE LET c == CallFn(u.e, x, d)
         IN  [v |-> IF Failed(c.v) THEN c.v
                    ELSE IF Truthy(c.v) THEN x ELSE NONE,
              tr |-> c.tr]

filter_fn(u, x, d) ==
    IF x.t = "list" THEN FilterLoop(u.e, x.v, 1, <<>>, <<>>, d)
    ELSE LET c == CallFn(u.e, x, d)
         IN  [v |-> IF Failed(c.v) THEN c.v
                    ELSE IF Truthy(c.v) THEN Some(x) ELSE NONE,
              tr |-> c.tr]

\* a branch with its targets exchanged
branch_fn_exchanged(u, x, d) ==
    LET c == CallFn(u.c, x, d)
    IN  IF Failed(c.v) THEN c
        ELSE LET r == CallTarget(IF Truthy(c.v) THEN u.el ELSE u.th, x, d)
             IN  [v |-> r.v, tr |-> c.tr \o r.tr]

branch_fn(u, x, d) ==
    LET c == CallFn(u.c, x, d)
    IN  IF Failed(c.v) THEN c
        ELSE LET r == CallTarget(IF Truthy(c.v) THEN u.th ELSE u.el, x, d)
             IN  [v |-> r.v, tr |-> c.tr \o r.tr]

\* the for loop of pipe_fn from the i-th block
PipeLoop(blocks, i, result, tr, d) ==
    IF i > Len(blocks) THEN [v |-> result, tr |-> tr]
    ELSE LET r == Call(blocks[i], result, d)
         IN  IF Failed(r.v) THEN [v |-> r.v, tr |-> tr \o r.tr]
             ELSE PipeLoop(blocks, i + 1, r.v, tr \o r.tr, d)

\* a pipe that runs its blocks last to first
pipe_fn_backwards(u, x, d) ==
    PipeLoop([i \in 1..Len(u.us) |-> u.us[Len(u.us) + 1 - i]], 1, x, <<>>, d)

RECURSIVE PipeLoopLenient(_, _, _, _, _)
\* a loop of pipe_fn that leaves at the first failure with the value it had
PipeLoopLenient(blocks, i, result, tr, d) ==
    IF i > Len(blocks) THEN [v |-> result, tr |-> tr]
    ELSE LET r == Call(blocks[i], result, d)
         IN  IF Failed(r.v) THEN [v |-> result, tr |-> tr \o r.tr]
             ELSE PipeLoopLenient(blocks, i + 1, r.v, tr \o r.tr, d)

\* a pipe that swallows the failure of a block
pipe_fn_lenient(u, x, d) == PipeLoopLenient(u.us, 1, x, <<>>, d)

RECURSIVE PipeLoopSkipping(_, _, _, _, _)
\* a loop of pipe_fn that goes on to the next block after a failure, with
\* the value it had
PipeLoopSkipping(blocks, i, result, tr, d) ==
    IF i > Len(blocks) THEN [v |-> result, tr |-> tr]
    ELSE LET r == Call(blocks[i], result, d)
         IN  PipeLoopSkipping(blocks, i + 1,
                              IF Failed(r.v) THEN result ELSE r.v,
                              tr \o r.tr, d)

\* a pipe that catches the failure of a block and goes on
pipe_fn_skipping(u, x, d) == PipeLoopSkipping(u.us, 1, x, <<>>, d)

\* a pipe that has no result when it has no block
pipe_fn_empty_none(u, x, d) ==
    IF Len(u.us) = 0 THEN [v |-> NONE, tr |-> <<>>]
    ELSE PipeLoop(u.us, 1, x, <<>>, d)

pipe_fn(u, x, d) == PipeLoop(u.us, 1, x, <<>>, d)

\* the generator of parallel_fn from the i-th block
ParallelLoop(blocks, i, x, outs, tr, d) ==
    IF i > Len(blocks) THEN [v |-> VTuple(outs), tr |-> tr]
    ELSE LET r == Call(blocks[i], x, d)
         IN  IF Failed(r.v) THEN [v |-> r.v, tr |-> tr \o r.tr]
             ELSE ParallelLoop(blocks, i + 1, x, Append(outs, r.v),
                               tr \o r.tr, d)

RECURSIVE ParallelLoopChained(_, _, _, _, _, _)
\* a generator of parallel_fn that hands each block the output of the one
\* before it
ParallelLoopChained(blocks, i, x, outs, tr, d) ==
    IF i > Len(blocks) THEN [v |-> VTuple(outs), tr |-> tr]
    ELSE LET r == Call(blocks[i], x, d)
         IN  IF Failed(r.v) THEN [v |-> r.v, tr |-> tr \o r.tr]
             ELSE ParallelLoopChained(blocks, i + 1, r.v, Append(outs, r.v),
                                      tr \o r.tr, d)

parallel_fn_chained(u, x, d) ==
    ParallelLoopChained(u.us, 1, x, <<>>, <<>>, d)

RECURSIVE ParallelLoopCollecting(_, _, _, _, _, _, _)
\* a generator of parallel_fn that calls every block and raises the first
\* failure once all have been called
ParallelLoopCollecting(blocks, i, x, outs, failure, tr, d) ==
    IF i > Len(blocks)
    THEN [v |-> IF Failed(failure) THEN failure ELSE VTuple(outs), tr |-> tr]
    ELSE LET r == Call(blocks[i], x, d)
         IN  ParallelLoopCollecting(
                 blocks, i + 1, x, Append(outs, r.v),
                 IF Failed(r.v) /\ ~Failed(failure) THEN r.v ELSE failure,
                 tr \o r.tr, d)

parallel_fn_collecting(u, x, d) ==
    ParallelLoopCollecting(u.us, 1, x, <<>>, NONE, <<>>, d)

parallel_fn(u, x, d) == ParallelLoop(u.us, 1, x, <<>>, <<>>, d)

\* one pass of the for loop of repeat_fn from the loop state s: the current
\* result, the trace, and go, FALSE once break or a failure has left the loop
RepeatPass(u, s, d) ==
    LET c == CallFn(u.c, s.v, d)
    IN  IF Failed(c.v) THEN [v |-> c.v, tr |-> s.tr \o c.tr, go |-> FALSE]
        ELSE IF ~Truthy(c.v) THEN [v |-> s.v, tr |-> s.tr \o c.tr, go |-> FALSE]
        ELSE LET r == Call(u.b, s.v, d)
             IN  [v |-> r.v, tr |-> s.tr \o c.tr \o r.tr, go |-> ~Failed(r.v)]

\* the for loop of repeat_fn: n passes (range(n)) from the loop state s.
\* The passes are split in halves, which nests the evaluation to depth
\* log n and leaves their order unchanged.
RepeatLoop(u, s, n, d) ==
    IF ~s.go \/ n <= 0 THEN s
    ELSE IF n = 1 THEN RepeatPass(u, s, d)
    ELSE RepeatLoop(u, RepeatLoop(u, s, n \div 2, d), n - n \div 2, d)

\* a repeat whose loop makes one pass more than max_iterations
repeat_fn_one_more(u, x, d) ==
    LET s == RepeatLoop(u, [v |-> x, tr |-> <<>>, go |-> TRUE], u.max + 1, d)
    IN  [v |-> s.v, tr |-> s.tr]

\* a repeat that raises when its loop ends without break (for ... else)
repeat_fn_raising(u, x, d) ==
    LET s == RepeatLoop(u, [v |-> x, tr |-> <<>>, go |-> TRUE], u.max, d)
    IN  [v |-> IF s.go THEN Raise("RuntimeError") ELSE s.v, tr |-> s.tr]

repeat_fn(u, x, d) ==
    LET s == RepeatLoop(u, [v |-> x, tr |-> <<>>, go |-> TRUE], u.max, d)
    IN  [v |-> s.v, tr |-> s.tr]

\* an unwrap_or that raises on Err, as unwrap does
unwrap_or_fn_raising(u, result) ==
    IF result.t = "ok" THEN result.v
    ELSE IF result.t = "err" THEN Raise("Exception")
    ELSE result

unwrap_or_fn(u, result) ==
    IF result.t = "ok" THEN result.v
    ELSE IF result.t = "err" THEN u.d
    ELSE result

\* raise Exception(f"Unwrap failed: {result.error}"): the exception, with
\* the message made of str(error)
UnwrapFailed(error) ==
    IF Failed(PyStr(error)) THEN PyStr(error)
    ELSE Raise("Exception: Unwrap failed: " \o PyStr(error).v)

\* an unwrap that returns the error of an Err
unwrap_fn_lenient(result) ==
    IF result.t \in {"ok", "err"} THEN result.v ELSE result

unwrap_fn(result) ==
    IF result.t = "ok" THEN result.v
    ELSE IF result.t = "err" THEN UnwrapFailed(result.v)
    ELSE result

map_ok_fn(u, result, d) ==
    IF result.t = "ok"
    THEN LET c == CallFn(u.e, result.v, d)
         IN  [v |-> IF Failed(c.v) THEN c.v ELSE Ok(c.v), tr |-> c.tr]
    ELSE [v |-> result, tr |-> <<>>]

\* a map_err that wraps what it computed in Ok
map_err_fn_as_ok(u, result, d) ==
    IF result.t = "err"
    THEN LET c == CallFn(u.e, result.v, d)
         IN  [v |-> IF Failed(c.v) THEN c.v ELSE Ok(c.v), tr |-> c.tr]
    ELSE [v |-> result, tr |-> <<>>]

map_err_fn(u, result, d) ==
    IF result.t = "err"
    THEN LET c == CallFn(u.e, result.v, d)
         IN  [v |-> IF Failed(c.v) THEN c.v ELSE Err(c.v), tr |-> c.tr]
    ELSE [v |-> result, tr |-> <<>>]

is_ok_fn(result) == VBool(result.t = "ok")

is_err_fn(result) == VBool(result.t = "err")

\* the outcome r of the call at depth d of the callable u on x, with the
\* call itself at the head of the calls made
Outcome(u, x, d, r) ==
    [v |-> r.v,
     tr |-> <<Event(d, IF u.k = "fn" THEN "fn" ELSE "block", u.name, x, r.v)>>
            \o r.tr]

\* Block.__call__: self.fn(input_), and the call of a closure of parse_expr
Call(u, x, d) ==
    Outcome(u, x, d,
            CASE u.k \in {"fn", "transform", "merge"} ->
                     [v |-> parse_expr(u.e, x), tr |-> <<>>]
              [] u.k = "filter" -> filter_fn(u, x, d + 1)
              [] u.k = "branch" -> branch_fn(u, x, d + 1)
              [] u.k = "pipe" -> pipe_fn(u, x, d + 1)
              [] u.k = "parallel" -> parallel_fn(u, x, d + 1)
              [] u.k = "repeat" -> repeat_fn(u, x, d + 1)
              [] u.k = "unwrap_or" ->
                     [v |-> unwrap_or_fn(u, x), tr |-> <<>>]
              [] u.k = "unwrap" -> [v |-> unwrap_fn(x), tr |-> <<>>]
              [] u.k = "map_ok" -> map_ok_fn(u, x, d + 1)
              [] u.k = "map_err" -> map_err_fn(u, x, d + 1)
              [] u.k = "is_ok" -> [v |-> is_ok_fn(x), tr |-> <<>>]
              [] u.k = "is_err" -> [v |-> is_err_fn(x), tr |-> <<>>])

\* run(block, input_)
run(block, input) == Call(block, input, 0)

(***************************************************************************)
(* The caller: what it invokes, and on what                                *)
(***************************************************************************)
\* integer inputs range over -MaxInt..MaxInt
MaxInt == 2

\* pipe and parallel are built from at most MaxBlocks blocks
MaxBlocks == 2

\* repeat is given a max_iterations of 0..MaxCap, or left at its default
MaxCap == 2

IntInputs == [i \in 1..(2 * MaxInt + 1) |-> VInt(i - MaxInt - 1)]

\* the inputs of the examples of src/runtime/examples.py
ExampleInputs ==
    <<VInt(5), VInt(-3), VInt(27),
      VList(<<VInt(1), VInt(2), VInt(3), VInt(4), VInt(5), VInt(6)>>)>>

OtherInputs ==
    <<NONE, VBool(TRUE), VBool(FALSE), VFloat(0, 1), VFloat(5, 2),
      VStr(""), VStr("ab"),
      VList(<<>>),
      VList(<<VInt(0), VStr("a"), VStr(""), VInt(3), NONE, VDict(<<>>),
              VInt(-1)>>),
      VTuple(<<>>), VTuple(<<VInt(1), VInt(2)>>),
      VDict(<<>>), VDict(<< <<"a", VInt(1)>> >>),
      Some(VInt(1)), Ok(VInt(2)), Ok(NONE), Err(VStr("NotFound")),
      PErr("reason")>>

Inputs == IntInputs \o ExampleInputs \o OtherInputs

\* the inputs given to the compositions of several blocks
FewInputs == IntInputs \o <<VInt(5), NONE, VStr("ab")>>

increment == transform("x => x + 1")

double == transform("x => x * 2")

\* a Collatz step that takes an odd n to 3n - 1
collatz_step_minus ==
    branch("n => n % 2 == 0", Str("n => n / 2"), Str("n => n * 3 - 1"))

collatz_step ==
    branch("n => n % 2 == 0", Str("n => n / 2"), Str("n => n * 3 + 1"))

sign == branch("x => x >= 0", Str("x => 'positive'"), Str("x => 'negative'"))

fizzbuzz_full ==
    pipe(<<branch("x => x % 15 == 0", Str("x => 'fizzbuzz'"),
             branch("x => x % 3 == 0", Str("x => 'fizz'"),
               branch("x => x % 5 == 0", Str("x => 'buzz'"), Str("x => x"))))>>)

\* the blocks that pipe and parallel are built from
Blocks ==
    <<increment, double, transform("x => 10 / x"), transform("x => x")>>

\* the lists of at most MaxBlocks blocks, as lists of positions in Blocks
BlockLists == UNION {[1..n -> 1..Len(Blocks)] : n \in 0..MaxBlocks}

ListOf(f) == [j \in DOMAIN f |-> Blocks[f[j]]]

even == filter("x => x % 2 == 0")

Predicates == <<even.e, "x => x > 0", "x => x">>

Branches ==
    <<sign,
      branch("x => x", Str("x => 'positive'"), Str("x => 'negative'")),
      branch("x => x", increment, sign),
      branch("x => x % 2 == 0", double, Str("x => x + 1")),
      branch("x => x > 0", Str("x => 10 / x"), transform("x => x")),
      collatz_step,
      fizzbuzz_full.us[1]>>

\* the loops given a max_iterations: <<condition, body>>
Loops ==
    << <<"x => x < 3", increment>>,
       <<"x => x", transform("x => x - 1")>>,
       <<"x => x", transform("x => x")>>,
       <<"n => n > 1", collatz_step>>,
       <<"x => true", increment>> >>

\* the loops left at the default max_iterations
count_up == repeat("x => x < 10", increment, DefaultMaxIterations)

collatz == repeat("n => n > 1", collatz_step, DefaultMaxIterations)

inc_then_double == pipe(<<increment, double>>)

DefaultLoops ==
    <<count_up,
      collatz,
      repeat("x => true", transform("x => x"), DefaultMaxIterations)>>

LoopInputs == IntInputs \o ExampleInputs \o <<NONE, VFloat(4, 1)>>

Defaults == <<VStr("default content"), VInt(0), NONE, Err(VStr("d"))>>

\* the functions given to map_ok and map_err
Mappers == <<"x => x", "x => x + 1", "e => 'failed'", "x => 10 / x">>

\* the inputs given to the blocks that handle a Result
ResultInputs ==
    Inputs \o <<Ok(VInt(0)), Ok(VStr("content")), Ok(Err(VStr("inner"))),
                Err(VInt(404)), Err(NONE), Err(VStr(""))>>

\* process_config of src/runtime/io_examples.py, from the Result that
\* file_read gave
process_config == pipe(<<unwrap, transform("text => text")>>)

\* pipes in which a unit may receive an Err
Processes ==
    <<process_config,
      pipe(<<transform("x => x"), unwrap, increment>>),
      pipe(<<unwrap, unwrap, double>>),
      pipe(<<map_err("e => 'failed'"), unwrap>>)>>

\* the functions given to merge
Mergers == <<"(a, b) => a + b", "(a, b) => [a, b]", "(a, b, c) => [a, b, c]">>

\* what merge is applied to: Sequences and tuples of 0 to 3 elements, and a
\* value that is neither
MergeInputs ==
    <<VList(<<>>), VTuple(<<>>), VList(<<VInt(1)>>), VTuple(<<VStr("a")>>),
      VTuple(<<VInt(1), VInt(2)>>), VList(<<VStr("a"), NONE>>),
      VList(<<VInt(1), VInt(2), VInt(3)>>),
      VTuple(<<NONE, VFloat(5, 2), VStr("c")>>), VInt(5)>>

(***************************************************************************)
(* The state: the block the caller holds and the invocation it made last.  *)
(* pc is "idle" before a block is built, "built" once a combinator has     *)
(* returned its Block, and "done" once run has returned or raised; result  *)
(* is the value returned, or the failure raised, and trace the calls made. *)
(* A caller that regroups a pipe of three blocks keeps the outcome of the  *)
(* first grouping in second and runs the other grouping on the same input  *)
(* (pc is "regrouped" in between).                                         *)
(***************************************************************************)
VARIABLES pc, unit, input, result, trace, second

\* A Store: data is its _data, ret the value the last call of one of its
\* methods returned or raised, and ops the calls made on it since it
\* was constructed: the method, the key, the value or function given, and
\* the value written (wrote is FALSE for get and for a call that raised).
VARIABLES data, ret, ops

runVars == <<pc, unit, input, result, trace, second>>

storeVars == <<data, ret, ops>>

vars == <<pc, unit, input, result, trace, second, data, ret, ops>>

NoBlock == [k |-> "none", name |-> ""]

NoCall == [unit |-> NoBlock, result |-> NONE, trace |-> <<>>]

Init ==
    /\ pc = "idle"
    /\ unit = NoBlock
    /\ input = NONE
    /\ result = NONE
    /\ trace = <<>>
    /\ second = NoCall
    /\ data = <<>>
    /\ ret = NONE
    /\ ops = <<>>

\* the caller holds the Block u that a combinator returned
Build(u) ==
    /\ pc' = "built"
    /\ unit' = u
    /\ UNCHANGED <<input, result, trace, second>>
    /\ UNCHANGED storeVars

BuildTransform ==
    /\ pc = "idle"
    /\ \E b \in 1..Len(Blocks) : Build(Blocks[b])

BuildPipe ==
    /\ pc = "idle"
    /\ \E f \in BlockLists : Build(pipe(ListOf(f)))

\* a pipe of a pipe of two blocks and a third block
BuildGrouped ==
    /\ pc = "idle"
    /\ \E a \in 1..Len(Blocks), b \in 1..Len(Blocks), c \in 1..Len(Blocks) :
           Build(pipe(<<pipe(<<Blocks[a], Blocks[b]>>), Blocks[c]>>))

\* pipe(pipe(), A) and pipe(A, pipe())
BuildWithEmpty ==
    /\ pc = "idle"
    /\ \E a \in 1..Len(Blocks) :
           \/ Build(pipe(<<pipe(<<>>), Blocks[a]>>))
           \/ Build(pipe(<<Blocks[a], pipe(<<>>)>>))

BuildProcess ==
    /\ pc = "idle"
    /\ \E p \in 1..Len(Processes) : Build(Processes[p])

BuildMerge ==
    /\ pc = "idle"
    /\ \E m \in 1..Len(Mergers) : Build(merge(Mergers[m]))

\* pipe(parallel(A, B), merge("(a, b) => a + b"))
BuildCombine ==
    /\ pc = "idle"
    /\ \E a \in 1..Len(Blocks), b \in 1..Len(Blocks) :
           Build(pipe(<<parallel(<<Blocks[a], Blocks[b]>>),
                        merge(Mergers[1])>>))

BuildParallel ==
    /\ pc = "idle"
    /\ \E f \in BlockLists : Build(parallel(ListOf(f)))

BuildFanout ==
    /\ pc = "idle"
    /\ \E f \in BlockLists : Build(fanout(ListOf(f)))

BuildFilter ==
    /\ pc = "idle"
    /\ \E p \in 1..Len(Predicates) : Build(filter(Predicates[p]))

BuildBranch ==
    /\ pc = "idle"
    /\ \E b \in 1..Len(Branches) : Build(Branches[b])

BuildRepeat ==
    /\ pc = "idle"
    /\ \E l \in 1..Len(Loops), m \in 0..MaxCap :
           Build(repeat(Loops[l][1], Loops[l][2], m))

BuildDefaultRepeat ==
    /\ pc = "idle"
    /\ \E l \in 1..Len(DefaultLoops) : Build(DefaultLoops[l])

BuildUnwrapOr ==
    /\ pc = "idle"
    /\ \E d \in 1..Len(Defaults) : Build(unwrap_or(Defaults[d]))

BuildUnwrap ==
    /\ pc = "idle"
    /\ Build(unwrap)

BuildMapOk ==
    /\ pc = "idle"
    /\ \E m \in 1..Len(Mappers) : Build(map_ok(Mappers[m]))

BuildMapErr ==
    /\ pc = "idle"
    /\ \E m \in 1..Len(Mappers) : Build(map_err(Mappers[m]))

BuildIsOk ==
    /\ pc = "idle"
    /\ Build(is_ok)

BuildIsErr ==
    /\ pc = "idle"
    /\ Build(is_err)

\* the inputs the caller gives to the block u
InputsOf(u) ==
    IF u.k = "pipe" /\ \E p \in 1..Len(Processes) : u = Processes[p]
    THEN ResultInputs
    ELSE IF u.k \in {"pipe", "parallel"} THEN FewInputs
    ELSE IF u.k = "merge" THEN MergeInputs
    ELSE IF u.k \in {"unwrap", "map_ok", "map_err", "is_ok", "is_err"}
    THEN ResultInputs
    ELSE IF u.k = "repeat" /\ u.max > MaxCap THEN LoopInputs
    ELSE Inputs

\* the caller takes the outcome r of run(unit, x)
Returned(x, r) ==
    /\ pc' = "done"
    /\ input' = x
    /\ result' = r.v
    /\ trace' = r.tr
    /\ UNCHANGED <<unit, second>>
    /\ UNCHANGED storeVars

\* run(unit, x): on an input of the caller's, or on the input of the first
\* grouping
Run ==
    \/ /\ pc = "built"
       /\ \E i \in 1..Len(InputsOf(unit)) :
              Returned(InputsOf(unit)[i], run(unit, InputsOf(unit)[i]))
    \/ /\ pc = "regrouped"
       /\ Returned(input, run(unit, input))

\* pipe(pipe(A, B), C) has run: the caller keeps its outcome and builds
\* pipe(A, pipe(B, C)) to run it on the same input
Regroup ==
    /\ pc = "done"
    /\ second = NoCall
    /\ unit.k = "pipe"
    /\ Len(unit.us) = 2
    /\ unit.us[1].k = "pipe"
    /\ Len(unit.us[1].us) = 2
    /\ pc' = "regrouped"
    /\ unit' = pipe(<<unit.us[1].us[1], pipe(<<unit.us[1].us[2], unit.us[2]>>)>>)
    /\ second' = [unit |-> unit, result |-> result, trace |-> trace]
    /\ result' = NONE
    /\ trace' = <<>>
    /\ UNCHANGED input
    /\ UNCHANGED storeVars

\* the caller drops the block and is ready to build the next
Return ==
    /\ pc = "done"
    /\ pc' = "idle"
    /\ unit' = NoBlock
    /\ input' = NONE
    /\ result' = NONE
    /\ trace' = <<>>
    /\ second' = NoCall
    /\ UNCHANGED storeVars

Next ==
    \/ BuildTransform
    \/ BuildPipe
    \/ BuildGrouped
    \/ BuildWithEmpty
    \/ BuildProcess
    \/ BuildMerge
    \/ BuildCombine
    \/ BuildParallel
    \/ BuildFanout
    \/ BuildFilter
    \/ BuildBranch
    \/ BuildRepeat
    \/ BuildDefaultRepeat
    \/ BuildUnwrapOr
    \/ BuildUnwrap
    \/ BuildMapOk
    \/ BuildMapErr
    \/ BuildIsOk
    \/ BuildIsErr
    \/ Run
    \/ Regroup
    \/ Return

Spec == Init /\ [][Next]_vars

(***************************************************************************)
(* Store: the methods, on the pairs of _data, and the caller that          *)
(* constructs a Store and calls them.  The functions given to update are   *)
(* closures of parse_expr.                                                 *)
(***************************************************************************)
\* a Store receives at most MaxOps calls
MaxOps == 3

Keys == <<"count", "name">>

StoredValues == <<VInt(0), VStr("a")>>

Updaters == <<"x => x + 1", "x => 'seen'", "x => 10 / x">>

\* Python's None, which set and update return
PyNone == [t |-> "pynone", v |-> FALSE]

\* Store.get: self._data.get(key, NONE)
Store_get(d, key) == DictGet(d, key)

\* Store.set: self._data[key] = value
Store_set(d, key, value) == DictSet(d, key, value)

\* an assignment that clears the key when fn raised
Written_clearing(d, key, y) ==
    [data |-> DictSet(d, key, IF Failed(y) THEN NONE ELSE y),
     ret |-> IF Failed(y) THEN y ELSE PyNone,
     wrote |-> ~Failed(y),
     v |-> IF Failed(y) THEN NONE ELSE y]

\* self._data[key] = y, which is not reached when fn raised y
Written(d, key, y) ==
    [data |-> IF Failed(y) THEN d ELSE DictSet(d, key, y),
     ret |-> IF Failed(y) THEN y ELSE PyNone,
     wrote |-> ~Failed(y),
     v |-> IF Failed(y) THEN NONE ELSE y]

\* an update that leaves a key that is not there alone
Store_update_present(d, key, fn) ==
    IF DictIndex(d, key, 1) = 0
    THEN [data |-> d, ret |-> PyNone, wrote |-> FALSE, v |-> NONE]
    ELSE Written(d, key, parse_expr(fn, Store_get(d, key)))

\* Store.update: self._data[key] = fn(self._data.get(key, NONE))
Store_update(d, key, fn) == Written(d, key, parse_expr(fn, Store_get(d, key)))

\* Store(): a new, empty Store
StoreNew ==
    /\ ops # <<>>
    /\ data' = <<>>
    /\ ret' = NONE
    /\ ops' = <<>>
    /\ UNCHANGED runVars

StoreSet ==
    /\ Len(ops) < MaxOps
    /\ \E k \in 1..Len(Keys), j \in 1..Len(StoredValues) :
           /\ data' = Store_set(data, Keys[k], StoredValues[j])
           /\ ret' = PyNone
           /\ ops' = Append(ops, [m |-> "set", key |-> Keys[k], fn |-> "",
                                  wrote |-> TRUE, v |-> StoredValues[j]])
    /\ UNCHANGED runVars

StoreGet ==
    /\ Len(ops) < MaxOps
    /\ \E k \in 1..Len(Keys) :
           /\ ret' = Store_get(data, Keys[k])
           /\ ops' = Append(ops, [m |-> "get", key |-> Keys[k], fn |-> "",
                                  wrote |-> FALSE, v |-> NONE])
    /\ UNCHANGED data
    /\ UNCHANGED runVars

\* the caller takes the outcome w of update(key, fn)
Updated(key, fn, w) ==
    /\ data' = w.data
    /\ ret' = w.ret
    /\ ops' = Append(ops, [m |-> "update", key |-> key, fn |-> fn,
                           wrote |-> w.wrote, v |-> w.v])

StoreUpdate ==
    /\ Len(ops) < MaxOps
    /\ \E k \in 1..Len(Keys), f \in 1..Len(Updaters) :
           Updated(Keys[k], Updaters[f],
                   Store_update(data, Keys[k], Updaters[f]))
    /\ UNCHANGED runVars

StoreNext ==
    \/ StoreNew
    \/ StoreSet
    \/ StoreGet
    \/ StoreUpdate

StoreSpec == Init /\ [][StoreNext]_vars

(***************************************************************************)
(* The caller of the expression language: it compiles an expression of one *)
(* of the forms below with parse_expr and applies the closure to an input. *)
(* unit is the closure, with the form of its expression (about) and the    *)
(* parts the expression was written from (args).                           *)
(***************************************************************************)
\* the integers written as literals, besides -MaxInt..MaxInt
MoreInts == <<10, 100, -250>>

Ints == [i \in 1..(2 * MaxInt + 1) |-> i - MaxInt - 1] \o MoreInts

\* the operands of a chain of one operator
Operands == <<"x", "0", "1", "2", "7", "-3", "2.5">>

\* parse_expr(expr): the closure, about to be applied to x
Compile(about, args, expr, x) ==
    /\ pc' = "compiled"
    /\ unit' = [k |-> "fn", name |-> expr, e |-> expr,
                about |-> about, args |-> args]
    /\ input' = x
    /\ UNCHANGED <<result, trace, second>>
    /\ UNCHANGED storeVars

\* x => x + a, on b
CompileSum ==
    /\ pc = "idle"
    /\ \E a \in 1..Len(Ints), b \in 1..Len(Ints) :
           Compile("sum", <<Ints[a]>>, "x => x + " \o IntStr(Ints[a]),
                   VInt(Ints[b]))

\* x => a op b op c, on 10
CompileChain ==
    /\ pc = "idle"
    /\ \E o \in 1..Len(ArithmeticOps), a \in 1..Len(Operands),
          b \in 1..Len(Operands), c \in 1..Len(Operands) :
           Compile("chain",
                   <<ArithmeticOps[o], Operands[a], Operands[b], Operands[c]>>,
                   "x => " \o Operands[a] \o " " \o ArithmeticOps[o] \o " "
                     \o Operands[b] \o " " \o ArithmeticOps[o] \o " "
                     \o Operands[c],
                   VInt(10))

\* the Sequences and Mappings that are indexed
Sequences ==
    <<VList(<<>>), VList(<<VInt(10)>>),
      VList(<<VInt(10), VInt(20), VInt(30)>>),
      VTuple(<<VStr("a"), VStr("b")>>)>>

user == VDict(<<<<"name", VStr("Alice")>>, <<"age", VInt(30)>>>>)

Mappings ==
    <<user, VDict(<<>>),
      VDict(<<<<"address", VDict(<<<<"city", VStr("Oslo")>>>>)>>>>)>>

\* the indices written between the brackets: -MaxIndex..MaxIndex
MaxIndex == 4

\* x => x[i], on a Sequence or a Mapping
CompileIndex ==
    /\ pc = "idle"
    /\ \E i \in (-MaxIndex)..MaxIndex, s \in 1..Len(Sequences \o Mappings) :
           Compile("index", <<i>>, "x => x[" \o IntStr(i) \o "]",
                   (Sequences \o Mappings)[s])

FieldNames == <<"name", "age", "missing", "address", "city">>

\* x => x['key'], on a Mapping or a Sequence
CompileKey ==
    /\ pc = "idle"
    /\ \E f \in 1..Len(FieldNames), s \in 1..Len(Mappings \o Sequences) :
           Compile("key", <<FieldNames[f]>>,
                   "x => x['" \o FieldNames[f] \o "']",
                   (Mappings \o Sequences)[s])

\* the fields read one after another
Chains ==
    <<<<"name">>, <<"missing">>, <<"real">>, <<"address", "city">>,
      <<"address", "zip">>, <<"missing", "name">>,
      <<"name", "missing", "age">>, <<"missing", "_instance">>,
      <<"missing", "__doc__">>, <<"missing", "missing", "__doc__">>>>

PropertyInputs ==
    Mappings \o <<VInt(5), VStr("ab"), VList(<<VInt(1)>>), NONE>>

RECURSIVE Dotted(_, _)
\* a.b.c from its parts
Dotted(parts, i) ==
    IF i > Len(parts) THEN "" ELSE "." \o parts[i] \o Dotted(parts, i + 1)

\* x => x.b.c, as get_name is user => user.name
CompileProperty ==
    /\ pc = "idle"
    /\ \E c \in 1..Len(Chains), s \in 1..Len(PropertyInputs) :
           Compile("property", Chains[c], "x => x" \o Dotted(Chains[c], 1),
                   PropertyInputs[s])

\* literals, each with the value it denotes
Literals ==
    <<[text |-> "'positive'", value |-> VStr("positive")],
      [text |-> "\"neg\"", value |-> VStr("neg")],
      [text |-> "''", value |-> VStr("")],
      [text |-> "'.'", value |-> VStr(".")],
      [text |-> "'a.b'", value |-> VStr("a.b")],
      [text |-> "'?'", value |-> VStr("?")],
      [text |-> "':'", value |-> VStr(":")],
      [text |-> "'a?b:c'", value |-> VStr("a?b:c")],
      [text |-> "' + '", value |-> VStr(" + ")],
      [text |-> "'a + b'", value |-> VStr("a + b")],
      [text |-> "0", value |-> VInt(0)],
      [text |-> "7", value |-> VInt(7)],
      [text |-> "-7", value |-> VInt(-7)],
      [text |-> "1.5", value |-> VFloat(3, 2)],
      [text |-> "-1.5", value |-> VFloat(-3, 2)],
      [text |-> "true", value |-> VBool(TRUE)],
      [text |-> "false", value |-> VBool(FALSE)],
      [text |-> "null", value |-> NONE]>>

\* x => literal, on any input
CompileLiteral ==
    /\ pc = "idle"
    /\ \E l \in 1..Len(Literals), b \in 1..Len(FewInputs) :
           Compile("literal", <<l>>, "x => " \o Literals[l].text,
                   FewInputs[b])

\* ternaries c1 ? a : c2 ? b : c, each as its conditions and branches
Ternaries ==
    <<<<"x > 0", "'pos'", "'neg'">>,
      <<"x % 3 == 0", "'fizz'", "x">>,
      <<"x > 0", "[1]", "[2]">>,
      <<"x > 0", "{k: 1}", "{k: 2}">>,
      <<"x > 0", "'pos'", "x < 0", "'neg'", "'zero'">>,
      <<"x > 0", "1", "x < 0", "-1", "0">>>>

RECURSIVE Questioned(_, _)
\* c1 ? a : c2 ? b : c from its parts
Questioned(parts, i) ==
    IF i = Len(parts) THEN parts[i]
    ELSE parts[i] \o " ? " \o parts[i + 1] \o " : " \o Questioned(parts, i + 2)

\* x => c1 ? a : c2 ? b : c, on an integer
CompileTernary ==
    /\ pc = "idle"
    /\ \E t \in 1..Len(Ternaries), b \in 1..Len(IntInputs) :
           Compile("ternary", Ternaries[t],
                   "x => " \o Questioned(Ternaries[t], 1), IntInputs[b])

\* binary expressions with builtin calls as operands: left, operator, right
CallPairs ==
    <<<<"length(a)", "+", "length(b)">>, <<"length(a)", ">", "length(b)">>,
      <<"sum(a)", "-", "sum(b)">>, <<"length(a)", "==", "length(b)">>,
      <<"length(a)", "+", "1">>, <<"1", "+", "length(b)">>,
      <<"sum(a)", ">", "2">>>>

\* the pairs the two parameters are bound to
PairInputs ==
    <<VTuple(<<VList(<<VInt(1), VInt(2)>>), VList(<<VInt(3)>>)>>),
      VTuple(<<VList(<<>>), VList(<<VInt(4), VInt(5), VInt(6)>>)>>),
      VList(<<VList(<<VInt(7)>>), VList(<<VInt(7)>>)>>)>>

\* (a, b) => f(a) op g(b), on a pair
CompileCalls ==
    /\ pc = "idle"
    /\ \E c \in 1..Len(CallPairs), s \in 1..Len(PairInputs) :
           Compile("calls", CallPairs[c],
                   "(a, b) => " \o CallPairs[c][1] \o " " \o CallPairs[c][2]
                     \o " " \o CallPairs[c][3],
                   PairInputs[s])

Comparisons == <<"x > 0", "x < 10", "x == 5", "x >= 20", "x != 0">>

LogicalOps == <<"&&", "||">>

LogicInputs == IntInputs \o <<VInt(5), VInt(20), VInt(10)>>

\* x => p && q and x => p || q for comparisons p and q
CompileLogical ==
    /\ pc = "idle"
    /\ \E p \in 1..Len(Comparisons), q \in 1..Len(Comparisons),
          o \in 1..Len(LogicalOps), b \in 1..Len(LogicInputs) :
           Compile("logical", <<Comparisons[p], LogicalOps[o], Comparisons[q]>>,
                   "x => " \o Comparisons[p] \o " " \o LogicalOps[o] \o " "
                     \o Comparisons[q],
                   LogicInputs[b])

\* the operands of an expression of two different operators
MixedOperands == <<"x", "2", "3", "7">>

MixedInputs == <<VInt(4), VInt(10)>>

\* x => a op1 b op2 c with op1 # op2
CompileMixed ==
    /\ pc = "idle"
    /\ \E o1 \in 1..Len(ArithmeticOps), o2 \in 1..Len(ArithmeticOps),
          a \in 1..Len(MixedOperands), b \in 1..Len(MixedOperands),
          c \in 1..Len(MixedOperands), i \in 1..Len(MixedInputs) :
           /\ o1 # o2
           /\ Compile("mixed",
                      <<MixedOperands[a], ArithmeticOps[o1], MixedOperands[b],
                        ArithmeticOps[o2], MixedOperands[c]>>,
                      "x => " \o MixedOperands[a] \o " " \o ArithmeticOps[o1]
                        \o " " \o MixedOperands[b] \o " " \o ArithmeticOps[o2]
                        \o " " \o MixedOperands[c],
                      MixedInputs[i])

\* ternaries whose condition guards a division in one branch
Guards ==
    <<<<"x == 0", "0", "10 / x">>, <<"x != 0", "10 % x", "x">>,
      <<"x > 0", "10 / x", "0">>, <<"x == 0", "'none'", "x * 2">>>>

\* x => c ? a : b, on an integer
CompileGuard ==
    /\ pc = "idle"
    /\ \E g \in 1..Len(Guards), b \in 1..Len(IntInputs) :
           Compile("guard", Guards[g], "x => " \o Questioned(Guards[g], 1),
                   IntInputs[b])

\* the closure is applied: evaluate(input_)
Evaluate ==
    /\ pc = "compiled"
    /\ pc' = "done"
    /\ result' = parse_expr(unit.e, input)
    /\ UNCHANGED <<unit, input, trace, second>>
    /\ UNCHANGED storeVars

EvalNext ==
    \/ CompileSum
    \/ CompileChain
    \/ CompileIndex
    \/ CompileKey
    \/ CompileProperty
    \/ CompileLiteral
    \/ CompileTernary
    \/ CompileCalls
    \/ CompileLogical
    \/ CompileMixed
    \/ CompileGuard
    \/ Evaluate
    \/ Return

EvalSpec == Init /\ [][EvalNext]_vars

(***************************************************************************)
(* What an invocation shows: the calls the block made itself are the       *)
(* events at depth 1 of the trace                                          *)
(***************************************************************************)
Direct(tr) == SelectSeq(tr, LAMBDA e : e.d = 1)

\* the blocks the block invoked itself
DirectBlocks(tr) == SelectSeq(tr, LAMBDA e : e.d = 1 /\ e.kind = "block")

\* the calls of blocks that are not pipes, at any depth, in order: which
\* block, on what, with what outcome
LeafCalls(tr) ==
    LET leaves == SelectSeq(tr, LAMBDA e : /\ e.kind = "block"
                                           /\ ~StartsWith(e.name, "pipe("))
    IN  [i \in 1..Len(leaves) |->
            <<leaves[i].name, leaves[i].in, leaves[i].out>>]

\* no invocation of the catalogues leaves the modelled part of the language
AllModelled == result.t # "unmodelled"

(***************************************************************************)
(* pipe                                                                    *)
(***************************************************************************)
\* C1: a pipe invokes its units one after another in argument order, each
\* exactly once, the first on the input and each next one on the output of
\* the one before, and returns the output of the last (the input when it has
\* no unit); a unit that raises ends the pipe with its failure.
\* inc_then_double gives 12 on 5.
PipeInOrder ==
    (pc = "done" /\ unit.k = "pipe") =>
        LET calls == Direct(trace)
            n == Len(unit.us)
        IN  /\ Len(calls) <= n
            /\ \A i \in 1..Len(calls) :
                   /\ calls[i].kind = "block"
                   /\ calls[i].name = unit.us[i].name
                   /\ calls[i].in = (IF i = 1 THEN input ELSE calls[i - 1].out)
                   /\ calls[i].out = run(unit.us[i], calls[i].in).v
                   /\ Failed(calls[i].out) => i = Len(calls)
            /\ IF Failed(result)
               THEN Len(calls) >= 1 /\ result = calls[Len(calls)].out
               ELSE /\ Len(calls) = n
                    /\ result = (IF n = 0 THEN input ELSE calls[n].out)
            /\ (unit = inc_then_double /\ input = VInt(5)) => result = VInt(12)

PipeInOrderWitness ==
    /\ pc = "done"
    /\ unit = inc_then_double
    /\ input = VInt(5)
    /\ result = VInt(12)
    /\ Len(Direct(trace)) = 2
    /\ Direct(trace)[2].in = VInt(6)

\* C2: pipe(pipe(A, B), C) and pipe(A, pipe(B, C)) on one input give the
\* same outcome, a value or a failure, and invoke A, B and C in the same
\* order on the same values.
PipeAssociative ==
    (pc = "done" /\ second.unit.k = "pipe") =>
        /\ result = second.result
        /\ LeafCalls(trace) = LeafCalls(second.trace)

PipeAssociativeWitness ==
    /\ pc = "done"
    /\ second.unit = pipe(<<pipe(<<increment, double>>), increment>>)
    /\ unit = pipe(<<increment, pipe(<<double, increment>>)>>)
    /\ input = VInt(1)
    /\ result = VInt(5)
    /\ Len(LeafCalls(trace)) = 3

\* a failure of B is the outcome of both groupings, and C is not invoked
PipeAssociativeFailureWitness ==
    /\ pc = "done"
    /\ second.unit.k = "pipe"
    /\ Failed(result)
    /\ Len(LeafCalls(trace)) = 2

(***************************************************************************)
(* repeat                                                                  *)
(***************************************************************************)
\* the value the loop of repeat holds after the body invocations made
Current == 
    IF Len(DirectBlocks(trace)) = 0 THEN input
    ELSE DirectBlocks(trace)[Len(DirectBlocks(trace))].out

\* the condition of the repeat block is truthy on v
CondHolds(v) ==
    /\ ~Failed(v)
    /\ ~Failed(parse_expr(unit.c, v))
    /\ Truthy(parse_expr(unit.c, v))

\* the condition of the repeat block is falsy on v
CondFails(v) ==
    /\ ~Failed(v)
    /\ ~Failed(parse_expr(unit.c, v))
    /\ ~Truthy(parse_expr(unit.c, v))

\* C3: repeat invokes its body at most max_iterations times (1000 when left
\* at the default); when it returns after fewer body invocations the
\* condition is falsy on the value returned; when the condition is falsy on
\* the input the body is not invoked and the input is returned.
RepeatBounded ==
    (pc = "done" /\ unit.k = "repeat") =>
        LET bodies == DirectBlocks(trace)
            calls == Direct(trace)
        IN  /\ Len(bodies) <= unit.max
            /\ \A i \in 1..Len(bodies) : bodies[i].name = unit.b.name
            /\ (~Failed(result) /\ Len(bodies) < unit.max) =>
                   /\ CondFails(result)
                   /\ calls[Len(calls)].kind = "fn"
                   /\ calls[Len(calls)].in = result
                   /\ ~Truthy(calls[Len(calls)].out)
            /\ CondFails(input) => (Len(bodies) = 0 /\ result = input)
            /\ unit \in {count_up, collatz} =>
                   unit.max = DefaultMaxIterations

RepeatBoundedWitness ==
    /\ pc = "done"
    /\ unit = count_up
    /\ input = VInt(0)
    /\ result = VInt(10)
    /\ Len(DirectBlocks(trace)) = 10

\* the default cap is reached: 1000 body invocations and no more
RepeatCapWitness ==
    /\ pc = "done"
    /\ unit.k = "repeat"
    /\ unit.max = DefaultMaxIterations
    /\ Len(DirectBlocks(trace)) = DefaultMaxIterations

\* the loop has made max_iterations body invocations and the condition is
\* still truthy on the value it holds
AtCap ==
    /\ pc = "done"
    /\ unit.k = "repeat"
    /\ Len(DirectBlocks(trace)) = unit.max
    /\ CondHolds(Current)

\* C4 as the specification states it: at the cap with the condition still
\* truthy, the invocation raises a failure instead of returning a value.
RepeatRaisesAtCap == AtCap => Failed(result)

\* C4: at the cap with the condition still truthy, the invocation does not
\* raise: it returns the value the loop holds, the output of the last body
\* invocation (the input when max_iterations is 0).
RepeatReturnsAtCap == AtCap => (~Failed(result) /\ result = Current)

RepeatReturnsAtCapWitness ==
    /\ AtCap
    /\ unit.c = "x => true"
    /\ unit.max >= 1
    /\ input = VInt(0)
    /\ result = VInt(unit.max)

\* C5: collatz on 27, at the default cap, returns a value equal to 1 after
\* fewer body invocations than the cap: the condition became falsy.
CollatzTerminates ==
    (pc = "done" /\ unit = collatz /\ input = VInt(27)) =>
        /\ ~Failed(result)
        /\ PyEq(result, VInt(1))
        /\ Len(DirectBlocks(trace)) < DefaultMaxIterations
        /\ CondFails(result)

CollatzTerminatesWitness ==
    /\ pc = "done"
    /\ unit = collatz
    /\ input = VInt(27)
    /\ result = VFloat(1, 1)
    /\ Len(DirectBlocks(trace)) = 111

(***************************************************************************)
(* parallel and fanout                                                     *)
(***************************************************************************)
\* C6: parallel (and fanout, the same operation) of n units returns an
\* ordered result of exactly n elements, the i-th the output of the i-th
\* unit on the input; every unit is invoked on the input itself.  A unit
\* that raises ends the invocation with its failure.
ParallelOrdered ==
    (pc = "done" /\ unit.k = "parallel") =>
        LET calls == Direct(trace)
            n == Len(unit.us)
        IN  /\ unit = fanout(unit.us)
            /\ Len(calls) <= n
            /\ \A i \in 1..Len(calls) :
                   /\ calls[i].kind = "block"
                   /\ calls[i].name = unit.us[i].name
                   /\ calls[i].in = input
                   /\ calls[i].out = run(unit.us[i], input).v
            /\ IF Failed(result)
               THEN Len(calls) >= 1 /\ result = calls[Len(calls)].out
               ELSE /\ Len(calls) = n
                    /\ result.t = "tuple"
                    /\ Len(result.v) = n
                    /\ \A i \in 1..n : result.v[i] = run(unit.us[i], input).v

ParallelOrderedWitness ==
    /\ pc = "done"
    /\ unit = parallel(<<increment, double>>)
    /\ input = VInt(5)
    /\ result = VTuple(<<VInt(6), VInt(10)>>)
    /\ Len(Direct(trace)) = 2
    /\ Direct(trace)[2].in = VInt(5)

(***************************************************************************)
(* filter                                                                  *)
(***************************************************************************)
\* the predicate of the filter block is truthy on v
Keeps(v) == Truthy(parse_expr(unit.e, v))

\* C7: on a Sequence, filter returns the elements on which the predicate is
\* truthy, in their order (even gives [2, 4, 6] on [1, 2, 3, 4, 5, 6]); on
\* any other input x it returns Some(x) when the predicate is truthy on x and
\* None otherwise.
FilterKeeps ==
    (pc = "done" /\ unit.k = "filter" /\ ~Failed(result)) =>
        /\ IF input.t = "list"
           THEN /\ result.t = "list"
                /\ result.v = SelectSeq(input.v, Keeps)
                /\ Len(Direct(trace)) = Len(input.v)
           ELSE /\ result = (IF Keeps(input) THEN Some(input) ELSE NONE)
                /\ Len(Direct(trace)) = 1
        /\ (unit = even /\ input = ExampleInputs[4]) =>
               result = VList(<<VInt(2), VInt(4), VInt(6)>>)

FilterKeepsWitness ==
    /\ pc = "done"
    /\ unit = even
    /\ input = VList(<<VInt(1), VInt(2), VInt(3), VInt(4), VInt(5), VInt(6)>>)
    /\ result = VList(<<VInt(2), VInt(4), VInt(6)>>)

\* an input that is not a Sequence is wrapped in Some
FilterSomeWitness ==
    /\ pc = "done"
    /\ unit = even
    /\ input = VInt(2)
    /\ result = Some(VInt(2))

(***************************************************************************)
(* The truth test of filter, branch and repeat                             *)
(***************************************************************************)
\* the values the specification names as falsy
NamedFalsy(v) ==
    \/ v.t = "none"
    \/ v.t = "bool" /\ ~v.v
    \/ v.t = "int" /\ v.v = 0
    \/ v.t = "float" /\ v.v[1] = 0
    \/ v.t = "str" /\ v.v = ""
    \/ v.t = "list" /\ v.v = <<>>

\* the values found falsy: those, and the empty tuple and the empty Mapping
FoundFalsy(v) ==
    \/ NamedFalsy(v)
    \/ v.t = "tuple" /\ v.v = <<>>
    \/ v.t = "dict" /\ v.v = <<>>

\* the invocation of a filter on an input that is not a Sequence, of a
\* branch, or of a repeat with max_iterations above 0, has taken the value
\* of its condition on the input for truthy: it kept the input, invoked the
\* then target, or invoked the body
TookForTruthy ==
    CASE unit.k = "filter" -> result.t = "some"
      [] unit.k = "branch" ->
             Direct(trace)[2].name =
                 (IF unit.th.k = "str" THEN unit.th.e ELSE unit.th.name)
      [] unit.k = "repeat" -> Len(DirectBlocks(trace)) >= 1

\* the value of the condition on the input, when the invocation tested it
\* and went on
Tested ==
    /\ pc = "done"
    /\ \/ unit.k = "filter" /\ input.t # "list"
       \/ unit.k = "branch"
       \/ unit.k = "repeat" /\ unit.max > 0
    /\ Len(Direct(trace)) >= 1
    /\ ~Failed(Direct(trace)[1].out)

\* C8 as the specification states it: exactly None, false, 0, the empty
\* string and the empty Sequence are falsy, every other value is truthy.
TruthinessAsNamed ==
    Tested => (TookForTruthy <=> ~NamedFalsy(Direct(trace)[1].out))

\* C8: exactly None, false, 0, the empty string, the empty Sequence, the
\* empty tuple and the empty Mapping are falsy; every other value (Some, Ok
\* and Err among them) is truthy.
Truthiness ==
    Tested => (TookForTruthy <=> ~FoundFalsy(Direct(trace)[1].out))

\* the empty Mapping is taken for falsy
TruthinessWitness ==
    /\ Tested
    /\ unit = filter("x => x")
    /\ input = VDict(<<>>)
    /\ result = NONE

\* Err is taken for truthy
TruthinessErrWitness ==
    /\ Tested
    /\ unit.k = "branch"
    /\ unit.c = "x => x"
    /\ input.t = "err"
    /\ TookForTruthy

(***************************************************************************)
(* branch                                                                  *)
(***************************************************************************)
\* the name under which a target of branch is called
TargetName(target) == IF target.k = "str" THEN target.e ELSE target.name

\* C9: branch evaluates its condition on the input once and then invokes
\* exactly one target on the same input, the then target when the value of
\* the condition is truthy and the else target otherwise, and returns what
\* the target does; sign gives "positive" on 5 and "negative" on -3.
BranchDispatches ==
    (pc = "done" /\ unit.k = "branch") =>
        LET calls == Direct(trace)
        IN  /\ Len(calls) >= 1
            /\ calls[1].kind = "fn"
            /\ calls[1].name = unit.c
            /\ calls[1].in = input
            /\ calls[1].out = parse_expr(unit.c, input)
            /\ IF Failed(calls[1].out)
               THEN Len(calls) = 1 /\ result = calls[1].out
               ELSE LET target == IF Truthy(calls[1].out) THEN unit.th
                                  ELSE unit.el
                    IN  /\ Len(calls) = 2
                        /\ calls[2].name = TargetName(target)
                        /\ calls[2].kind =
                               (IF target.k = "str" THEN "fn" ELSE "block")
                        /\ calls[2].in = input
                        /\ result = calls[2].out
                        /\ result = (IF target.k = "str"
                                     THEN parse_expr(target.e, input)
                                     ELSE run(target, input).v)
            /\ (unit = sign /\ input = VInt(5)) => result = VStr("positive")
            /\ (unit = sign /\ input = VInt(-3)) => result = VStr("negative")

BranchDispatchesWitness ==
    /\ pc = "done"
    /\ unit = sign
    /\ input = VInt(-3)
    /\ result = VStr("negative")
    /\ Len(Direct(trace)) = 2
    /\ Direct(trace)[2].name = "x => 'negative'"

BranchThenWitness ==
    /\ pc = "done"
    /\ unit = sign
    /\ input = VInt(5)
    /\ result = VStr("positive")

(***************************************************************************)
(* unwrap_or                                                               *)
(***************************************************************************)
\* C10: unwrap_or(default) never raises: it gives default on Err(e), v on
\* Ok(v), and returns any input that is neither unchanged; it calls nothing.
UnwrapOrTotal ==
    (pc = "done" /\ unit.k = "unwrap_or") =>
        /\ ~Failed(result)
        /\ input.t = "err" => result = unit.d
        /\ input.t = "ok" => result = input.v
        /\ input.t \notin {"ok", "err"} => result = input
        /\ Len(trace) = 1

UnwrapOrTotalWitness ==
    /\ pc = "done"
    /\ unit = unwrap_or(VStr("default content"))
    /\ input = Err(VStr("NotFound"))
    /\ result = VStr("default content")

UnwrapOrOkWitness ==
    /\ pc = "done"
    /\ unit.k = "unwrap_or"
    /\ input = Ok(NONE)
    /\ result = NONE

(***************************************************************************)
(* unwrap, map_ok, map_err, is_ok, is_err                                  *)
(***************************************************************************)
\* C11: unwrap gives v on Ok(v), returns any input that is neither Ok nor
\* Err unchanged, and on Err(e) returns nothing: it raises an exception
\* whose message is made of e.
UnwrapResult ==
    (pc = "done" /\ unit.k = "unwrap") =>
        /\ input.t = "ok" => result = input.v
        /\ input.t \notin {"ok", "err"} => result = input
        /\ input.t = "err" =>
               /\ result.t = "raise"
               /\ result.v = "Exception: Unwrap failed: " \o PyStr(input.v).v
        /\ Len(trace) = 1

UnwrapResultWitness ==
    /\ pc = "done"
    /\ unit = unwrap
    /\ input = Err(VStr("NotFound"))
    /\ result = Raise("Exception: Unwrap failed: NotFound")

UnwrapOkWitness ==
    /\ pc = "done"
    /\ unit = unwrap
    /\ input = Ok(VStr("content"))
    /\ result = VStr("content")

\* C12 as the specification states it: an Err built with the constructor of
\* primitives.py is handled as an Err: unwrap raises on it, unwrap_or gives
\* the default, map_err applies its function, is_err gives true.
ErrRecognised ==
    (pc = "done" /\ input.t = "perr") =>
        CASE unit.k = "unwrap" -> Failed(result)
          [] unit.k = "unwrap_or" -> result = unit.d
          [] unit.k = "map_err" -> Len(Direct(trace)) = 1
          [] unit.k = "is_err" -> result = VBool(TRUE)
          [] OTHER -> TRUE

\* what is found instead: such an Err is returned as it is by unwrap,
\* unwrap_or and map_err, and is_err gives false on it
ErrOfPrimitivesPlain ==
    (pc = "done" /\ input.t = "perr") =>
        CASE unit.k \in {"unwrap", "unwrap_or", "map_err", "map_ok"} ->
                 result = input /\ Len(trace) = 1
          [] unit.k \in {"is_err", "is_ok"} -> result = VBool(FALSE)
          [] OTHER -> TRUE

\* C13: map_ok gives Ok(f(v)) on Ok(v) and returns anything else unchanged;
\* map_err gives Err(f(e)) on Err(e) and returns anything else unchanged;
\* the variant of the input is the variant of the result.  An f that raises
\* ends the invocation with its failure.
MapKeepsVariant ==
    (pc = "done" /\ unit.k \in {"map_ok", "map_err"}) =>
        IF input.t = (IF unit.k = "map_ok" THEN "ok" ELSE "err")
        THEN /\ Len(Direct(trace)) = 1
             /\ Direct(trace)[1].in = input.v
             /\ Direct(trace)[1].out = parse_expr(unit.e, input.v)
             /\ result = (IF Failed(Direct(trace)[1].out)
                          THEN Direct(trace)[1].out
                          ELSE [t |-> input.t, v |-> Direct(trace)[1].out])
        ELSE result = input /\ Len(trace) = 1

MapKeepsVariantWitness ==
    /\ pc = "done"
    /\ unit = map_err("e => 'failed'")
    /\ input = Err(VStr("NotFound"))
    /\ result = Err(VStr("failed"))

MapOkWitness ==
    /\ pc = "done"
    /\ unit = map_ok("x => x + 1")
    /\ input = Ok(VInt(2))
    /\ result = Ok(VInt(3))

(***************************************************************************)
(* Store                                                                   *)
(***************************************************************************)
\* the value the last of the calls log that wrote key k wrote, None when
\* none did
LastWritten(log, k) ==
    LET last == Greatest({0} \cup {i \in 1..Len(log) :
                                       log[i].wrote /\ log[i].key = k})
    IN  IF last = 0 THEN NONE ELSE log[last].v

\* C14: after any calls of set, get and update on a Store, get(k) gives the
\* value of the most recent set or update of k, None when there was none;
\* update(k, fn) writes fn of the value get(k) would give (nothing when fn
\* raises); no call changes what get gives for another key, and get changes
\* nothing.
StoreLatest ==
    /\ \A k \in 1..Len(Keys) : Store_get(data, Keys[k]) = LastWritten(ops, Keys[k])
    /\ \A i \in 1..Len(data) : LastWritten(ops, data[i][1]) = data[i][2]
    /\ \A i \in 1..Len(ops) :
           /\ ops[i].m = "set" => ops[i].wrote
           /\ ops[i].m = "get" => ~ops[i].wrote
           /\ ops[i].m = "update" =>
                  LET y == parse_expr(ops[i].fn,
                                      LastWritten(SubSeq(ops, 1, i - 1),
                                                  ops[i].key))
                  IN  IF Failed(y) THEN ~ops[i].wrote
                      ELSE ops[i].wrote /\ ops[i].v = y
    /\ (ops # <<>> /\ ops[Len(ops)].m = "get") =>
           ret = LastWritten(ops, ops[Len(ops)].key)

\* examples.py: set("count", 0), update("count", x + 1), get("count")
StoreLatestWitness ==
    /\ Len(ops) = 3
    /\ ops[1].m = "set" /\ ops[1].key = "count" /\ ops[1].v = VInt(0)
    /\ ops[2].m = "update" /\ ops[2].key = "count" /\ ops[2].fn = "x => x + 1"
    /\ ops[3].m = "get" /\ ops[3].key = "count"
    /\ ret = VInt(1)

\* update of a key never written: fn is given None
StoreUpdateAbsentWitness ==
    /\ Len(ops) = 2
    /\ ops[1].m = "update" /\ ops[1].key = "name" /\ ops[1].fn = "x => 'seen'"
    /\ ops[2].m = "get" /\ ops[2].key = "name"
    /\ ret = VStr("seen")

(***************************************************************************)
(* The expression language                                                 *)
(***************************************************************************)
\* the closure of an expression of the form about has been applied
Evaluated(about) == pc = "done" /\ unit.k = "fn" /\ unit.about = about

\* C15: x => x + a, a an integer written as its decimal literal, gives
\* a + b on the integer b.
SumOfLiteral ==
    Evaluated("sum") => result = VInt(unit.args[1] + input.v)

SumOfLiteralWitness ==
    /\ Evaluated("sum")
    /\ unit.e = "x => x + -2"
    /\ input = VInt(-250)
    /\ result = VInt(-252)

\* the value of an operand of a chain
OperandValue(text) == IF text = "x" THEN input ELSE eval_literal(text)

\* (a op b) op c, where a failure of a op b is the outcome
LeftFirst(op, a, b, c) ==
    IF Failed(Arith(op, a, b)) THEN Arith(op, a, b)
    ELSE Arith(op, Arith(op, a, b), c)

\* C16: a chain a op b op c of one operator set off by spaces is evaluated
\* left to right, as (a op b) op c; x => x - 1 - 1 gives 8 on 10.
ChainLeftToRight ==
    Evaluated("chain") =>
        /\ result = LeftFirst(unit.args[1], OperandValue(unit.args[2]),
                              OperandValue(unit.args[3]),
                              OperandValue(unit.args[4]))
        /\ unit.e = "x => x - 1 - 1" => result = VInt(8)

ChainLeftToRightWitness ==
    /\ Evaluated("chain")
    /\ unit.e = "x => x - 1 - 1"
    /\ input = VInt(10)
    /\ result = VInt(8)

\* a chain of divisions, where the order shows: (7 / 2) / 2.5
ChainDivisionWitness ==
    /\ Evaluated("chain")
    /\ unit.e = "x => 7 / 2 / 2.5"
    /\ result = VFloat(7, 5)

\* the element at zero-based position i, None for every other i
ElementOrNone(xs, i) == IF 0 <= i /\ i < Len(xs) THEN xs[i + 1] ELSE NONE

\* C17: x[i] never raises for an integer i: on a Sequence it gives the
\* element at position i when 0 <= i < length and None for every other i,
\* negative ones included; on a Mapping the entry keyed by i, or None.
IndexTotal ==
    /\ Evaluated("index") =>
          /\ ~Failed(result)
          /\ input.t \in {"list", "tuple"} =>
                 result = ElementOrNone(input.v, unit.args[1])
          /\ input.t = "dict" => result = NONE
    /\ Evaluated("key") /\ input.t = "dict" =>
          result = DictGet(input.v, unit.args[1])

\* what eval_index_access gives for an integer i: Python's s[i] when
\* i < length, where a negative i counts from the end and one below -length
\* raises IndexError; None when i >= length
IndexAsPython ==
    Evaluated("index") /\ input.t \in {"list", "tuple"} =>
        LET i == unit.args[1]
            n == Len(input.v)
        IN  /\ 0 <= i /\ i < n => result = input.v[i + 1]
            /\ i >= n => result = NONE
            /\ i < 0 /\ -i <= n => result = input.v[n + i + 1]
            /\ -i > n => result = Raise("IndexError")

\* x[-1] gives the last element
IndexWrapsWitness ==
    /\ Evaluated("index")
    /\ unit.e = "x => x[-1]"
    /\ input = Sequences[3]
    /\ result = VInt(30)

\* x[-4] raises on three elements
IndexRaisesWitness ==
    /\ Evaluated("index")
    /\ unit.e = "x => x[-4]"
    /\ input = Sequences[3]
    /\ result = Raise("IndexError")

\* the entry of a Mapping under a key
KeyedEntryWitness ==
    /\ Evaluated("key")
    /\ unit.e = "x => x['name']"
    /\ input = user
    /\ result = VStr("Alice")

\* one field read as the claim describes it: the entry of a Mapping or None,
\* None from None, the attribute of another value or None
FieldOf(value, part) ==
    IF value.t = "dict" THEN DictGet(value.v, part)
    ELSE IF value.t = "none" THEN NONE
    ELSE IF Attr(value, part).has THEN Attr(value, part).val
    ELSE NONE

RECURSIVE FieldsOf(_, _, _)
FieldsOf(value, parts, i) ==
    IF i > Len(parts) THEN value
    ELSE FieldsOf(FieldOf(value, parts[i]), parts, i + 1)

\* C18: a.b.c is total: a field a Mapping lacks reads as None, a field of a
\* value that is no Mapping and has no such attribute reads as None, every
\* field read after a None reads as None, and no chain raises.
PropertyTotal ==
    Evaluated("property") =>
        /\ ~Failed(result)
        /\ result = FieldsOf(input, unit.args, 1)

\* no field of the chain names an attribute of the None object
PlainFields == \A i \in 1..Len(unit.args) : ~Attr(NONE, unit.args[i]).has

\* what eval_property_access gives: the fields as described, as long as no
\* field names an attribute the None object has
PropertyOfPlainFields ==
    Evaluated("property") /\ PlainFields =>
        /\ ~Failed(result)
        /\ result = FieldsOf(input, unit.args, 1)

\* x.missing.__doc__ gives the docstring of the None class
PropertyOfNoneWitness ==
    /\ Evaluated("property")
    /\ unit.e = "x => x.missing.__doc__"
    /\ input = VDict(<<>>)
    /\ result = VStr("Explicit None value (distinct from Python None)")

\* x.address.city
PropertyPathWitness ==
    /\ Evaluated("property")
    /\ unit.e = "x => x.address.city"
    /\ result = VStr("Oslo")

\* C19: a lambda whose body is one literal gives the literal's value on
\* every input: a quoted string the characters between its quotes whatever
\* they are, an integer or floating-point literal of either sign its number,
\* true, false and null the booleans and None.
LiteralReturned ==
    Evaluated("literal") => result = Literals[unit.args[1]].value

\* the literal's text holds nothing that eval_expr takes for a ternary, an
\* operator or a property access before it comes to eval_literal
PlainText(text) ==
    /\ ~(Contains(text, "?") /\ Contains(text, ":"))
    /\ \A k \in 1..Len(ComparisonOps) : ~Contains(text, ComparisonOps[k])
    /\ ~Contains(text, " && ") /\ ~Contains(text, " || ")
    /\ \A k \in 1..Len(ArithmeticOps) :
           ~Contains(text, " " \o ArithmeticOps[k] \o " ")
    /\ ~(Contains(text, ".") /\ ~IsDigit(At(text, 0)))

\* what the evaluator gives: the literal's value when its text is plain
PlainLiteralReturned ==
    Evaluated("literal") /\ PlainText(Literals[unit.args[1]].text) =>
        result = Literals[unit.args[1]].value

\* x => -1.5 gives None
NegativeFloatWitness ==
    /\ Evaluated("literal")
    /\ unit.e = "x => -1.5"
    /\ result = NONE

\* x => 'a + b' gives the concatenation of 'a and b'
QuotedOperatorWitness ==
    /\ Evaluated("literal")
    /\ unit.e = "x => 'a + b'"
    /\ result = VStr("'ab'")

\* x => -7 gives -7
PlainLiteralWitness ==
    /\ Evaluated("literal")
    /\ unit.e = "x => -7"
    /\ result = VInt(-7)

\* the value of one condition or branch of a ternary on the input
PartValue(part) == parse_expr("x => " \o part, input)

RECURSIVE Selected(_, _)
\* c1 ? a : (c2 ? b : c): the branch of the first condition that holds
Selected(parts, i) ==
    IF i = Len(parts) THEN PartValue(parts[i])
    ELSE IF Truthy(PartValue(parts[i])) THEN PartValue(parts[i + 1])
    ELSE Selected(parts, i + 2)

\* C20: a ternary is split at its depth-0 '?' and at the ':' that belongs
\* to it, so c1 ? a : c2 ? b : c is c1 ? a : (c2 ? b : c) and
\* c ? {k: 1} : {k: 2} gives the Mapping of the branch taken.
TernarySplit ==
    Evaluated("ternary") => result = Selected(unit.args, 1)

\* what eval_ternary gives: the branch taken when the expression holds one
\* '?' and one ':'
SingleTernary ==
    Evaluated("ternary")
      /\ Cardinality(Occurrences(unit.e, "?")) = 1
      /\ Cardinality(Occurrences(unit.e, ":")) = 1 =>
        result = Selected(unit.args, 1)

\* x > 0 ? {k: 1} : {k: 2} gives the text between the first '?' and the
\* last ':'
TernaryOfMappingsWitness ==
    /\ Evaluated("ternary")
    /\ unit.e = "x => x > 0 ? {k: 1} : {k: 2}"
    /\ input = VInt(1)
    /\ result = VStr("{k: 1} : {k")

\* the nested ternary compares the text of its then-branch with 0
NestedTernaryWitness ==
    /\ Evaluated("ternary")
    /\ unit.e = "x => x > 0 ? 'pos' : x < 0 ? 'neg' : 'zero'"
    /\ result = Raise("TypeError")

\* x > 0 ? 'pos' : 'neg'
SingleTernaryWitness ==
    /\ Evaluated("ternary")
    /\ unit.e = "x => x > 0 ? 'pos' : 'neg'"
    /\ input = VInt(-1)
    /\ result = VStr("neg")

(***************************************************************************)
(* Laws of transform and pipe                                              *)
(***************************************************************************)
\* C21: transform("x => x") is the identity: it returns every value v,
\* scalar, None, Some, Ok, Err, Sequence, tuple or Mapping, unchanged.
TransformIdentity ==
    (pc = "done" /\ unit = transform("x => x")) => result = input

TransformIdentityWitness ==
    /\ pc = "done"
    /\ unit = transform("x => x")
    /\ input = VTuple(<<VInt(1), VInt(2)>>)
    /\ result = input

\* the identity on a Result
TransformIdentityResultWitness ==
    /\ pc = "done"
    /\ unit = transform("x => x")
    /\ input = Err(VStr("NotFound"))
    /\ result = input

\* C22: pipe() of zero units is the identity and invokes nothing, and it is
\* neutral for composition: pipe(pipe(), A) and pipe(A, pipe()) give on
\* every x what A gives.
PipeEmptyNeutral ==
    (pc = "done" /\ unit.k = "pipe") =>
        /\ unit = pipe(<<>>) => result = input /\ Len(trace) = 1
        /\ Len(unit.us) = 2 /\ unit.us[1] = pipe(<<>>) =>
               result = run(unit.us[2], input).v
        /\ Len(unit.us) = 2 /\ unit.us[2] = pipe(<<>>) =>
               result = run(unit.us[1], input).v

PipeEmptyNeutralWitness ==
    /\ pc = "done"
    /\ unit = pipe(<<pipe(<<>>), double>>)
    /\ input = VInt(2)
    /\ result = VInt(4)

\* pipe() on its own
PipeEmptyWitness ==
    /\ pc = "done"
    /\ unit = pipe(<<>>)
    /\ input = VStr("ab")
    /\ result = VStr("ab")

\* pipe(A, pipe()) where A raises
PipeEmptyAfterFailureWitness ==
    /\ pc = "done"
    /\ unit = pipe(<<transform("x => 10 / x"), pipe(<<>>)>>)
    /\ input = VInt(0)
    /\ result.t = "raise"

(***************************************************************************)
(* Failures inside pipe and parallel                                       *)
(***************************************************************************)
\* C26: a failure raised by unit Uk of pipe(U1..Un), such as unwrap() given
\* an Err, aborts the invocation: it reaches the caller of the pipe, no unit
\* after Uk is invoked, and the pipe returns no value.
PipeAborts ==
    (pc = "done" /\ unit.k = "pipe") =>
        LET calls == Direct(trace)
        IN  /\ \A k \in 1..Len(calls) :
                   /\ calls[k].name = unit.us[k].name
                   /\ Failed(calls[k].out) =>
                          /\ k = Len(calls)
                          /\ result = calls[k].out
                          /\ result.t = "raise"
            /\ Len(calls) < Len(unit.us) =>
                   Len(calls) > 0 /\ Failed(calls[Len(calls)].out)

PipeAbortsWitness ==
    /\ pc = "done"
    /\ unit = process_config
    /\ input = Err(VStr("NotFound"))
    /\ result = Raise("Exception: Unwrap failed: NotFound")
    /\ Len(Direct(trace)) = 1

\* the second of three units raises
PipeAbortsMidWitness ==
    /\ pc = "done"
    /\ unit = Processes[3]
    /\ input = Ok(Err(VStr("inner")))
    /\ result.t = "raise"
    /\ Len(Direct(trace)) = 2

\* C27: parallel invokes its units one at a time in declaration order, each
\* at most once, on the input; when unit Uk raises, the failure reaches the
\* caller at once, the units declared after Uk are never invoked, and no
\* tuple of the results so far is returned.
ParallelAborts ==
    (pc = "done" /\ unit.k = "parallel") =>
        LET calls == Direct(trace)
        IN  /\ Len(calls) <= Len(unit.us)
            /\ \A k \in 1..Len(calls) :
                   /\ calls[k].kind = "block"
                   /\ calls[k].name = unit.us[k].name
                   /\ calls[k].in = input
                   /\ Failed(calls[k].out) =>
                          /\ k = Len(calls)
                          /\ result = calls[k].out
                          /\ result.t = "raise"
            /\ Len(calls) < Len(unit.us) =>
                   Len(calls) > 0 /\ Failed(calls[Len(calls)].out)
            /\ ~Failed(result) =>
                   result = VTuple([k \in 1..Len(calls) |-> calls[k].out])

ParallelAbortsWitness ==
    /\ pc = "done"
    /\ unit = parallel(<<transform("x => 10 / x"), double>>)
    /\ input = VInt(0)
    /\ result.t = "raise"
    /\ Len(Direct(trace)) = 1

\* the second unit raises after the first has returned
ParallelAbortsSecondWitness ==
    /\ pc = "done"
    /\ unit = parallel(<<double, transform("x => 10 / x")>>)
    /\ input = VInt(0)
    /\ result.t = "raise"
    /\ Len(Direct(trace)) = 2

(***************************************************************************)
(* merge                                                                   *)
(***************************************************************************)
\* what n parameters are bound to on the Sequence or tuple xs
BoundTo(xs, n) == [i \in 1..n |-> IF i <= Len(xs) THEN xs[i] ELSE NONE]

\* C28: a lambda of n >= 2 parameters applied to a Sequence or tuple binds
\* parameter i to the element at position i and every parameter beyond the
\* length of the input to None; so pipe(parallel(A, B), merge("(a, b) =>
\* a + b")) gives A(x) + B(x) when A and B return numbers.
MergeBinds ==
    /\ (pc = "done" /\ unit.k = "merge" /\ input.t \in {"list", "tuple"}) =>
          /\ unit.e = "(a, b) => [a, b]" =>
                 result = VList(BoundTo(input.v, 2))
          /\ unit.e = "(a, b, c) => [a, b, c]" =>
                 result = VList(BoundTo(input.v, 3))
          /\ (unit.e = "(a, b) => a + b" /\ Len(input.v) >= 2
                /\ IsNum(input.v[1]) /\ IsNum(input.v[2])) =>
                 result = PyAdd(input.v[1], input.v[2])
    /\ (pc = "done" /\ unit.k = "pipe" /\ Len(unit.us) = 2
          /\ unit.us[1].k = "parallel" /\ unit.us[2].k = "merge") =>
          LET a == run(unit.us[1].us[1], input).v
              b == run(unit.us[1].us[2], input).v
          IN  IsNum(a) /\ IsNum(b) => result = PyAdd(a, b)

MergeBindsWitness ==
    /\ pc = "done"
    /\ unit = merge("(a, b, c) => [a, b, c]")
    /\ input = VList(<<VStr("a"), NONE>>)
    /\ result = VList(<<VStr("a"), NONE, NONE>>)

\* increment and double of 2, added: 3 + 4
MergeOfParallelWitness ==
    /\ pc = "done"
    /\ unit = pipe(<<parallel(<<increment, double>>), merge("(a, b) => a + b")>>)
    /\ input = VInt(2)
    /\ result = VInt(7)

\* both parameters beyond an empty tuple
MergeOfEmptyWitness ==
    /\ pc = "done"
    /\ unit = merge("(a, b) => [a, b]")
    /\ input = VTuple(<<>>)
    /\ result = VList(<<NONE, NONE>>)

(***************************************************************************)
(* Calls and operators of the expression language                          *)
(***************************************************************************)
\* the value of one operand of a two-parameter lambda on the input
OperandOf(text) == parse_expr("(a, b) => " \o text, input)

\* the operator op applied to l and r, a failure of either being the outcome
Binary(op, l, r) ==
    IF Failed(l) THEN l
    ELSE IF Failed(r) THEN r
    ELSE IF \E k \in 1..Len(ArithmeticOps) : ArithmeticOps[k] = op
    THEN Arith(op, l, r)
    ELSE Compare(op, l, r)

\* C23: the call form is taken only when the parenthesis after the leading
\* name is closed by the last character, so a binary expression of two
\* builtin calls, length(a) + length(b) or length(a) > length(b), is the
\* operator applied to the results of the two calls.
CallsAsOperands ==
    Evaluated("calls") =>
        result = Binary(unit.args[2], OperandOf(unit.args[1]),
                        OperandOf(unit.args[3]))

\* what the evaluator gives when the expression does not both begin with a
\* name and its parenthesis and end with a parenthesis
CallAndLiteral ==
    Evaluated("calls")
      /\ ~(EndsWith(unit.args[1], ")") /\ EndsWith(unit.args[3], ")")) =>
        result = Binary(unit.args[2], OperandOf(unit.args[1]),
                        OperandOf(unit.args[3]))

\* length(a) + length(b) is one call of length on the text between the
\* first parenthesis and the last, which has 13 characters
CallsAsOneCallWitness ==
    /\ Evaluated("calls")
    /\ unit.e = "(a, b) => length(a) + length(b)"
    /\ input = PairInputs[1]
    /\ result = VInt(13)

\* length(a) + 1
CallAndLiteralWitness ==
    /\ Evaluated("calls")
    /\ unit.e = "(a, b) => length(a) + 1"
    /\ input = PairInputs[1]
    /\ result = VInt(3)

\* the comparison p holds on the input
Holds(p) == Truthy(parse_expr("x => " \o p, input))

\* C24: for comparisons p and q, p && q is truthy exactly when both hold and
\* p || q exactly when at least one holds; x => x > 0 && x < 10 is truthy
\* for 5 and falsy for 20 and for -1.
LogicalOfComparisons ==
    Evaluated("logical") =>
        /\ ~Failed(result)
        /\ unit.args[2] = "&&" =>
               (Truthy(result) <=> Holds(unit.args[1]) /\ Holds(unit.args[3]))
        /\ unit.args[2] = "||" =>
               (Truthy(result) <=> Holds(unit.args[1]) \/ Holds(unit.args[3]))

\* x > 0 && x < 10 is truthy for 20
LogicalSplitWitness ==
    /\ Evaluated("logical")
    /\ unit.e = "x => x > 0 && x < 10"
    /\ input = VInt(20)
    /\ result = VBool(TRUE)

\* x == 5 || x >= 20 is falsy for 5
LogicalOrWitness ==
    /\ Evaluated("logical")
    /\ unit.e = "x => x == 5 || x >= 20"
    /\ input = VInt(5)
    /\ result = VBool(FALSE)

\* * / and % bind tighter than + and -
Binds(op) == IF op \in {"*", "/", "%"} THEN 2 ELSE 1

\* the position of op in eval_expr's table of arithmetic operators
TableIndex(op) == CHOOSE k \in 1..Len(ArithmeticOps) : ArithmeticOps[k] = op

\* the value of one operand of an expression in x
ValueOf(text) == parse_expr("x => " \o text, input)

\* a op1 (b op2 c)
RightFirst(a, op1, b, op2, c) == Binary(op1, a, Binary(op2, b, c))

\* (a op1 b) op2 c
LeftFirstOf(a, op1, b, op2, c) == Binary(op2, Binary(op1, a, b), c)

\* C25: an expression of different operators has the conventional value:
\* * / % bind tighter than + -, and operators of equal precedence apply left
\* to right: a * b % c is (a * b) % c, a / b % c is (a / b) % c, and
\* a - b * c is a - (b * c).
MixedConventional ==
    Evaluated("mixed") =>
        LET a == ValueOf(unit.args[1])
            b == ValueOf(unit.args[3])
            c == ValueOf(unit.args[5])
        IN  result = IF Binds(unit.args[4]) > Binds(unit.args[2])
                     THEN RightFirst(a, unit.args[2], b, unit.args[4], c)
                     ELSE LeftFirstOf(a, unit.args[2], b, unit.args[4], c)

\* what the evaluator gives: the expression is split at the operator that
\* comes first in the table + - * / %, whatever its place in the text
MixedByTable ==
    Evaluated("mixed") =>
        LET a == ValueOf(unit.args[1])
            b == ValueOf(unit.args[3])
            c == ValueOf(unit.args[5])
        IN  result = IF TableIndex(unit.args[2]) < TableIndex(unit.args[4])
                     THEN RightFirst(a, unit.args[2], b, unit.args[4], c)
                     ELSE LeftFirstOf(a, unit.args[2], b, unit.args[4], c)

\* 2 * 3 % 7 is 2 * (3 % 7)
MixedByTableWitness ==
    /\ Evaluated("mixed")
    /\ unit.e = "x => 2 * 3 % x"
    /\ input = VInt(4)
    /\ result = VInt(6)

\* 7 - 2 * 3 is 7 - (2 * 3)
MixedConventionalWitness ==
    /\ Evaluated("mixed")
    /\ unit.e = "x => 7 - 2 * 3"
    /\ result = VInt(1)

\* C29: a ternary evaluates only the branch its condition selects: a
\* failure of the other branch, such as the division by zero of
\* x => x == 0 ? 0 : 10 / x on 0, does not occur, and the value of the
\* selected branch is returned.
TernarySelects ==
    Evaluated("guard") => result = Selected(unit.args, 1)

\* what eval_ternary gives: condition and both branches are evaluated, and a
\* failure of any of them is the outcome
TernaryEvaluatesBoth ==
    Evaluated("guard") =>
        result = IF Failed(PartValue(unit.args[1])) THEN PartValue(unit.args[1])
                 ELSE IF Failed(PartValue(unit.args[2]))
                 THEN PartValue(unit.args[2])
                 ELSE IF Failed(PartValue(unit.args[3]))
                 THEN PartValue(unit.args[3])
                 ELSE Selected(unit.args, 1)

\* x == 0 ? 0 : 10 / x raises on 0
GuardRaisesWitness ==
    /\ Evaluated("guard")
    /\ unit.e = "x => x == 0 ? 0 : 10 / x"
    /\ input = VInt(0)
    /\ result = Raise("ZeroDivisionError")

\* x == 0 ? 0 : 10 / x on 2
GuardSelectsWitness ==
    /\ Evaluated("guard")
    /\ unit.e = "x => x == 0 ? 0 : 10 / x"
    /\ input = VInt(2)
    /\ result = VFloat(5, 1)

(***************************************************************************)
(* Store.update when fn raises                                             *)
(***************************************************************************)
\* the call that has just been made is update(k, fn) with an fn that raises
\* on the value k had
UpdateRaises ==
    /\ Len(ops') = Len(ops) + 1
    /\ ops'[Len(ops')].m = "update"
    /\ parse_expr(ops'[Len(ops')].fn,
                  Store_get(data, ops'[Len(ops')].key)).t = "raise"

\* C30: Store.update(k, fn) is all-or-nothing: when fn raises, the failure
\* reaches the caller and the store is as it was before the call: k keeps
\* its value or stays absent, and no other key changes.
UpdateAllOrNothing ==
    [][UpdateRaises =>
          /\ data' = data
          /\ ret' = parse_expr(ops'[Len(ops')].fn,
                               Store_get(data, ops'[Len(ops')].key))]_vars

\* update("count", "x => 10 / x") has raised on the 0 that was set
UpdateAllOrNothingWitness ==
    /\ Len(ops) = 2
    /\ ops[1].m = "set" /\ ops[1].key = "count" /\ ops[1].v = VInt(0)
    /\ ops[2].m = "update" /\ ops[2].key = "count" /\ ops[2].fn = "x => 10 / x"
    /\ ~ops[2].wrote
    /\ ret = Raise("ZeroDivisionError")
    /\ data = <<<<"count", VInt(0)>>>>

\* update on a key that is absent has raised, and the key stays absent
UpdateAbsentRaisesWitness ==
    /\ Len(ops) = 1
    /\ ops[1].m = "update" /\ ops[1].fn = "x => x + 1"
    /\ ret.t = "raise"
    /\ data = <<>>

=============================================================================
